---------------------------- MODULE Spec2Model ----------------------------
(***************************************************************************)
(* A model of the resilience and concurrent-execution layer of pyidevice:  *)
(*   - BatchOperator.execute_batch            (pyidevice/batch.py)         *)
(*   - ParallelDeviceExecutor / parallel_run  (pyidevice/parallel.py)      *)
(*   - CircuitBreaker                         (pyidevice/stability.py)     *)
(*   - RetryManager                           (pyidevice/stability.py)     *)
(*   - ConnectionPool                         (pyidevice/stability.py)     *)
(*   - HealthChecker                          (pyidevice/stability.py)     *)
(*   - TimeoutManager                         (pyidevice/stability.py)     *)
(* Each component has its own specification (named Spec...); while it is   *)
(* run the variables of the other components are parked.                   *)
(*                                                                         *)
(* Modelling conventions                                                   *)
(*   - Python's None is the string Null.                                   *)
(*   - An operation (the caller's callback) is opaque: each invocation     *)
(*     nondeterministically returns a value, returns None, raises an       *)
(*     Exception, or never returns ("hang").                               *)
(*   - A work item of a ThreadPoolExecutor is named by its position in the *)
(*     list it was submitted from (udids, tasks).                          *)
(***************************************************************************)
EXTENDS Integers, Sequences, FiniteSets, TLC

VARIABLES
    \* ---- the ThreadPoolExecutor used by execute_batch / ParallelDeviceExecutor
    work_queue,      \* FIFO of submitted work items not yet taken by a worker
    num_threads,     \* worker threads spawned and not yet joined
    idle_semaphore,  \* ThreadPoolExecutor._idle_semaphore
    fstate,          \* per work item: "none" | "queued" | "running" | "finished"
    fresult,         \* per work item: what its future holds once finished
    outcome,         \* per work item: what its invocation does (chosen when it starts)
    op_calls,        \* per work item: how many times the operation was invoked for it
    runs,            \* per work item: how many times a worker began its callable
    \* ---- BatchOperator.execute_batch
    udids,           \* the input list of target keys
    max_workers,     \* BatchOperator.max_workers / ParallelDeviceExecutor.max_workers
    results,         \* execute_batch's local list `results`
    yielded,         \* work items as_completed has already yielded
    b_pc,            \* where the caller of execute_batch is
    b_exc,           \* the exception propagating out of execute_batch (Null if none)
    timed_out,       \* the aggregate timeout has elapsed
    late,            \* the work items that had not finished when it elapsed
    \* ---- ParallelDeviceExecutor / parallel_run
    tasks,           \* self.tasks: the DeviceTask objects, in submission order
    executor,        \* self.executor: Null or "pool"
    p_mode,          \* "parallel_run" (the convenience function) or "scope" (any with-body)
    p_next,          \* parallel_run: the statement to execute next
    p_pc,            \* where the caller is: in the body, inside a call, leaving, done
    p_idx,           \* the loop index of the call in progress
    p_todo,          \* map_tasks: the udids still to submit
    p_timeout,       \* wait_for_completion: whether a timeout was given
    p_results,       \* the dict built by get_results: a function from udids to entries
    p_exc,           \* the exception the with-body raised (Null if none)
    \* ---- CircuitBreaker
    failure_threshold,   \* CircuitBreaker.failure_threshold
    recovery_timeout,    \* CircuitBreaker.recovery_timeout
    _state,              \* "closed" | "open" | "half_open"
    _failure_count,
    _last_failure_time,
    _success_count,
    _lock,               \* the thread inside `with self._lock` in call(), or Null
    now,                 \* time.time()
    cb_event,            \* the last step of a call: what happened, whether func was invoked
    consec_failures,     \* matching failures since the last success or reset()
    ho_successes,        \* successful calls since the breaker last became half-open
    callers,             \* the threads that have entered call() so far
    \* ---- RetryManager
    config,              \* RetryManager.config (a RetryConfig)
    _retry_stats,        \* per function name: the inner dict it maps to (0: no entry)
    stat_dicts,          \* the inner dicts created so far: success, failure, retries
    r_pc,                \* per thread: where it is in execute()
    func_name,           \* per thread: func_name of its call
    attempt,             \* per thread: the loop variable of its call
    last_exception,      \* per thread: 0 (None) or the error of attempt e - 1
    r_field,             \* per thread: the counter its call is updating
    r_ref,               \* per thread: the inner dict loaded for the update (0: none)
    r_tmp,               \* per thread: the counter value loaded for the update
    r_delay,             \* per thread: the delay of its last sleep
    r_out,               \* per thread: what the last invocation of func did
    r_result,            \* per thread: how its last call ended
    calls_left,          \* per thread: calls it may still make
    c_inv,               \* per thread: invocations of func in its call
    c_sleeps,            \* per thread: sleeps in its call
    c_failed,            \* per thread: attempts of its call that raised a retryable error
    invocations,         \* per function name: invocations of func since reset_stats()
    incs,                \* per function name: counter increments stored since reset_stats()
    calls_since_reset,   \* execute() calls begun since reset_stats(), at most 2 counted
    d_attempt,           \* the attempt _calculate_delay was last called for
    d_delay,             \* the delay it returned (-1: not called yet)
    \* ---- ConnectionPool
    max_connections,     \* ConnectionPool.max_connections
    idle_timeout,        \* ConnectionPool.idle_timeout
    _connections,        \* the records, in insertion order: id, last_used, is_active
    clock,               \* time.time(), in seconds
    _stop_cleanup,       \* the Event close() sets
    cl_pc,               \* the cleanup thread: "waiting" | "scan" | "remove" | "dead"
    current_time,        \* _cleanup_expired_connections: current_time
    expired_connections, \* _cleanup_expired_connections: the ids still to remove
    close_pc,            \* close(): "-" (not called) | "joining" | "returned"
    join_deadline,       \* when the join of close() gives up
    cp_event,            \* the last operation on the pool: kind, id returned, alternating seq
    \* ---- HealthChecker
    _checks,             \* the registered check names, in insertion order
    _failure_counts,     \* per name with an entry: failures since the last pass
    _recovery_counts,    \* per name with an entry: passes since the last failure
    _status_history,     \* the statuses appended by check_health
    _current_status,
    h_pc,                \* check_health: "idle" | "loop" | "probe"
    healthy_checks,      \* check_health: healthy_checks
    total_checks,        \* check_health: total_checks
    it_pos,              \* position of the iterator of self._checks.items()
    it_broken,           \* the keys of _checks have changed since the iterator was made
    h_cur,               \* the name whose probe is running (0: none)
    probe_mutated,       \* the running probe has called add_check or remove_check
    passed,              \* probes of this run that passed
    h_out,               \* what the last probe did
    h_runs,              \* check_health calls begun
    h_result,            \* how the last check_health call ended
    \* ---- TimeoutManager (times in half seconds)
    default_timeout,
    _timeout_stats,      \* per function name with an entry: the recorded execution times
    tm_clock,            \* the time since the outermost call in progress began
    alarm_at,            \* when the pending SIGALRM is due (0: no alarm pending)
    sig_handler,         \* the SIGALRM handler: 0 the one found, k the timeout_handler of frame k
    frames,              \* the wrapper calls in progress on the main thread, innermost last
    tm_calls,            \* wrapper calls counted as begun
    tm_event,            \* how the last wrapper call ended
    tm_suggested         \* what the last get_suggested_timeout call returned, as num / den

poolVars  == <<work_queue, num_threads, idle_semaphore, fstate, fresult, outcome, op_calls,
              runs>>
batchVars == <<udids, max_workers, results, yielded, b_pc, b_exc, timed_out, late>>
parVars == <<tasks, executor, p_mode, p_next, p_pc, p_idx, p_todo, p_timeout, p_results,
             p_exc>>
cbVars == <<failure_threshold, recovery_timeout, _state, _failure_count, _last_failure_time,
            _success_count, _lock, now, cb_event, consec_failures, ho_successes, callers>>
retryVars == <<_retry_stats, stat_dicts, r_pc, func_name, attempt, last_exception, r_field,
               r_ref, r_tmp, r_delay, r_out, r_result, calls_left, c_inv, c_sleeps, c_failed,
               invocations, incs, calls_since_reset>>
delayVars == <<d_attempt, d_delay>>
rmVars == <<config, retryVars, delayVars>>
cpVars == <<max_connections, idle_timeout, _connections, clock, _stop_cleanup, cl_pc,
            current_time, expired_connections, close_pc, join_deadline, cp_event>>
hcVars == <<_checks, _failure_counts, _recovery_counts, _status_history, _current_status,
            h_pc, healthy_checks, total_checks, it_pos, it_broken, h_cur, probe_mutated,
            passed, h_out, h_runs, h_result>>
tmVars == <<default_timeout, _timeout_stats, tm_clock, alarm_at, sig_handler, frames,
            tm_calls, tm_event, tm_suggested>>
restVars == <<cpVars, hcVars, tmVars>>
vars == <<poolVars, batchVars, parVars, cbVars, rmVars, restVars>>

\* What the actions of one component leave alone.
notBatch == <<parVars, cbVars, rmVars, restVars>>
notPar == <<results, yielded, b_pc, b_exc, timed_out, late, cbVars, rmVars,
           restVars>>
notBreaker == <<poolVars, batchVars, parVars, rmVars, restVars>>
notRetry == <<poolVars, batchVars, parVars, cbVars, restVars>>
notConnPool == <<poolVars, batchVars, parVars, cbVars, rmVars, hcVars, tmVars>>
notHealth == <<poolVars, batchVars, parVars, cbVars, rmVars, cpVars, tmVars>>
notTimeout == <<poolVars, batchVars, parVars, cbVars, rmVars, cpVars, hcVars>>

\* ------------------------------------------------------------------ bounds
MaxKeys == 3
MaxWorkers == 2
MaxTasks == 3
MaxThreshold == 3
MaxRecovery == 2
MaxTime == 6
MaxRetries == 2
MaxConcRetries == 1
MaxCalls == 3
MaxBaseDelay == 2
MaxDelayCap == 4
MaxFactor == 3
MaxConns == 2
MaxIdle == 1
MaxClock == 6
MaxChecks == 2
MaxProbes == 10
MaxRuns == 2
MaxTimeout == 3
MaxWork == 3
MaxTmCalls == 2
MaxTmClock == 5

\* --------------------------------------------------------------- constants
UdidLen == 40
Null == "None"

\* ------------------------------------------------------------------ helpers
Range(s) == {s[i] : i \in DOMAIN s}
InProgress == {i \in DOMAIN fstate : fstate[i] = "running"}

\* A target key: its position makes it unique; len and hex are what
\* InputValidator.validate_udid looks at.  The second format is that of the
\* key in Device's docstring, "00008020-0012345678901234".
UdidFormats == {[len |-> UdidLen, hex |-> TRUE],
                [len |-> 25, hex |-> FALSE]}

\* InputValidator.validate_udid: a string of exactly 40 characters that parses
\* as a hexadecimal number.
validate_udid(u) == u.len = UdidLen /\ u.hex

\* What one invocation of the caller's operation can do.
OpOutcomes == {"value", "none", "raise", "hang"}

\* ---------------------------------------------------------- BatchResult
BatchResult(udid, success, result, error) ==
    [udid |-> udid, success |-> success, result |-> result, error |-> error]

\* BatchOperator._execute_single, once the invocation has ended with outcome o:
\* Device(udid) raises ValueError for a key validate_udid rejects (o = "invalid",
\* the operation is not called); an Exception of the operation is caught and
\* becomes error = str(e).
_execute_single_no_error(udid, o) ==
    IF o = "value" THEN BatchResult(udid, TRUE, "value", Null)
    ELSE IF o = "none" THEN BatchResult(udid, TRUE, Null, Null)
    ELSE BatchResult(udid, FALSE, Null, Null)

_execute_single(udid, o) ==
    IF o = "value" THEN BatchResult(udid, TRUE, "value", Null)
    ELSE IF o = "none" THEN BatchResult(udid, TRUE, Null, Null)
    ELSE IF o = "invalid" THEN BatchResult(udid, FALSE, Null, "ValueError: invalid udid")
    ELSE BatchResult(udid, FALSE, Null, "str(e)")

\* What a finished future holds: the callable's return value or its exception.
FutureValue(v) == [exc |-> Null, val |-> v]
FutureException(e) == [exc |-> e, val |-> Null]
NoFuture == [exc |-> Null, val |-> Null]

\* ------------------------------------------------- ThreadPoolExecutor
\* The size execute_batch gives its pool: ThreadPoolExecutor(max_workers=self.max_workers).
BatchPoolSizePerKey == Len(udids)

BatchPoolSize == max_workers

\* ThreadPoolExecutor.submit: queue the work item, then _adjust_thread_count:
\* reuse an idle worker if the semaphore says there is one, else spawn a thread
\* while fewer than `size` exist.
PoolSubmit(i, size) ==
    /\ work_queue' = Append(work_queue, i)
    /\ fstate' = [fstate EXCEPT ![i] = "queued"]
    /\ IF idle_semaphore > 0
         THEN /\ idle_semaphore' = idle_semaphore - 1
              /\ num_threads' = num_threads
         ELSE /\ idle_semaphore' = idle_semaphore
              /\ num_threads' = IF num_threads < size THEN num_threads + 1 ELSE num_threads

\* A worker thread that is not running a work item takes the head of the queue.
PoolCanTake(i) ==
    /\ work_queue # <<>>
    /\ i = Head(work_queue)
    /\ Cardinality(InProgress) < num_threads

\* All worker threads have been joined: shutdown(wait=True) returns.
PoolDrained == work_queue = <<>> /\ InProgress = {}

\* ------------------------------------------------------------- parking
\* The values the variables of ParallelDeviceExecutor keep while another
\* component is being run.
ParkedPar ==
    /\ tasks = <<>>
    /\ executor = Null
    /\ p_mode = "-"
    /\ p_next = "-"
    /\ p_pc = "-"
    /\ p_idx = 0
    /\ p_todo = <<>>
    /\ p_timeout = FALSE
    /\ p_results = <<>>
    /\ p_exc = Null

\* The values the variables of the CircuitBreaker keep meanwhile.
ParkedBreaker ==
    /\ failure_threshold = 0
    /\ recovery_timeout = 0
    /\ _state = "-"
    /\ _failure_count = 0
    /\ _last_failure_time = 0
    /\ _success_count = 0
    /\ _lock = Null
    /\ now = 0
    /\ cb_event = <<>>
    /\ consec_failures = 0
    /\ ho_successes = 0
    /\ callers = {}

\* The values the variables of the RetryManager keep meanwhile.
ParkedRetryRun ==
    /\ _retry_stats = <<>>
    /\ stat_dicts = <<>>
    /\ r_pc = <<>>
    /\ func_name = <<>>
    /\ attempt = <<>>
    /\ last_exception = <<>>
    /\ r_field = <<>>
    /\ r_ref = <<>>
    /\ r_tmp = <<>>
    /\ r_delay = <<>>
    /\ r_out = <<>>
    /\ r_result = <<>>
    /\ calls_left = <<>>
    /\ c_inv = <<>>
    /\ c_sleeps = <<>>
    /\ c_failed = <<>>
    /\ invocations = <<>>
    /\ incs = <<>>
    /\ calls_since_reset = 0

ParkedDelay ==
    /\ d_attempt = 0
    /\ d_delay = -1

ParkedRetry ==
    /\ config = <<>>
    /\ ParkedRetryRun
    /\ ParkedDelay

\* The values the variables of the ConnectionPool keep meanwhile.
ParkedConnPool ==
    /\ max_connections = 0
    /\ idle_timeout = 0
    /\ _connections = <<>>
    /\ clock = 0
    /\ _stop_cleanup = FALSE
    /\ cl_pc = "-"
    /\ current_time = 0
    /\ expired_connections = <<>>
    /\ close_pc = "-"
    /\ join_deadline = 0
    /\ cp_event = <<>>

\* The values the variables of the HealthChecker keep meanwhile.
ParkedHealth ==
    /\ _checks = <<>>
    /\ _failure_counts = <<>>
    /\ _recovery_counts = <<>>
    /\ _status_history = <<>>
    /\ _current_status = "-"
    /\ h_pc = "-"
    /\ healthy_checks = 0
    /\ total_checks = 0
    /\ it_pos = 0
    /\ it_broken = FALSE
    /\ h_cur = 0
    /\ probe_mutated = FALSE
    /\ passed = 0
    /\ h_out = "-"
    /\ h_runs = 0
    /\ h_result = <<>>

\* The values the variables of the TimeoutManager keep meanwhile.
ParkedTimeout ==
    /\ default_timeout = 0
    /\ _timeout_stats = <<>>
    /\ tm_clock = 0
    /\ alarm_at = 0
    /\ sig_handler = 0
    /\ frames = <<>>
    /\ tm_calls = 0
    /\ tm_event = <<>>
    /\ tm_suggested = <<>>

ParkedRest == ParkedConnPool /\ ParkedHealth /\ ParkedTimeout

\* The values the variables of execute_batch keep meanwhile (udids and
\* max_workers are shared with parallel_run).
ParkedBatch ==
    /\ results = <<>>
    /\ yielded = {}
    /\ b_pc = "-"
    /\ b_exc = Null
    /\ timed_out = FALSE
    /\ late = {}

\* ------------------------------------------------ BatchOperator.execute_batch
Submitted == {i \in DOMAIN fstate : fstate[i] # "none"}
AllSubmitted == Cardinality(Submitted) = Len(udids)

InitPool(n) ==
    /\ work_queue = <<>>
    /\ num_threads = 0
    /\ idle_semaphore = 0
    /\ fstate = [i \in 1..n |-> "none"]
    /\ fresult = [i \in 1..n |-> NoFuture]
    /\ outcome = [i \in 1..n |-> "-"]
    /\ op_calls = [i \in 1..n |-> 0]
    /\ runs = [i \in 1..n |-> 0]

InitBatch ==
    /\ \E n \in 0..MaxKeys : \E fmt \in [1..n -> UdidFormats] :
          /\ udids = [i \in 1..n |-> [id |-> i, len |-> fmt[i].len, hex |-> fmt[i].hex]]
          /\ InitPool(n)
    /\ max_workers \in 1..MaxWorkers
    /\ results = <<>>
    /\ yielded = {}
    /\ b_pc = "run"
    /\ b_exc = Null
    /\ timed_out = FALSE
    /\ late = {}
    /\ ParkedPar
    /\ ParkedBreaker
    /\ ParkedRetry
    /\ ParkedRest

\* future_to_udid = {executor.submit(self._execute_single, udid, operation): udid ...}:
\* one submit per key, in list order.
BatchSubmit ==
    /\ b_pc = "run"
    /\ ~AllSubmitted
    /\ PoolSubmit(Cardinality(Submitted) + 1, BatchPoolSize)
    /\ UNCHANGED <<fresult, outcome, op_calls, runs, batchVars, notBatch>>

\* A worker starts _execute_single(udid, operation): Device(udid) validates the
\* key; only for a valid key is the operation invoked.
BatchWorkerStart(i) ==
    /\ PoolCanTake(i)
    /\ work_queue' = Tail(work_queue)
    /\ fstate' = [fstate EXCEPT ![i] = "running"]
    /\ runs' = [runs EXCEPT ![i] = @ + 1]
    /\ IF validate_udid(udids[i])
         THEN /\ \E o \in OpOutcomes : outcome' = [outcome EXCEPT ![i] = o]
              /\ op_calls' = [op_calls EXCEPT ![i] = @ + 1]
         ELSE /\ outcome' = [outcome EXCEPT ![i] = "invalid"]
              /\ op_calls' = op_calls
    /\ UNCHANGED <<num_threads, idle_semaphore, fresult, batchVars, notBatch>>

\* _execute_single returns its BatchResult; the worker sets the future and
\* releases the idle semaphore.  An invocation that hangs never gets here.
BatchWorkerFinish(i) ==
    /\ fstate[i] = "running"
    /\ outcome[i] # "hang"
    /\ fstate' = [fstate EXCEPT ![i] = "finished"]
    /\ fresult' = [fresult EXCEPT ![i] = FutureValue(_execute_single(udids[i], outcome[i]))]
    /\ idle_semaphore' = idle_semaphore + 1
    /\ UNCHANGED <<work_queue, num_threads, outcome, op_calls, runs, batchVars, notBatch>>

\* The body of `for future in as_completed(...)`: future.result() appended, or a
\* failed BatchResult if future.result() raised.
CollectResultSuccessOnly(res, udid, fr) ==
    IF fr.exc = Null /\ fr.val.success THEN Append(res, fr.val) ELSE res

CollectResult(res, udid, fr) ==
    IF fr.exc = Null
      THEN Append(res, fr.val)
      ELSE Append(res, BatchResult(udid, FALSE, Null, fr.exc))

\* as_completed yields a finished future it has not yielded yet.
BatchCollect(i) ==
    /\ b_pc = "run"
    /\ AllSubmitted
    /\ fstate[i] = "finished"
    /\ i \notin yielded
    /\ results' = CollectResult(results, udids[i], fresult[i])
    /\ yielded' = yielded \cup {i}
    /\ UNCHANGED <<poolVars, udids, max_workers, b_pc, b_exc, timed_out, late, notBatch>>

\* as_completed has yielded every future: the loop ends and the with block is left.
BatchLoopEnds ==
    /\ b_pc = "run"
    /\ AllSubmitted
    /\ yielded = DOMAIN udids
    /\ b_pc' = "exit"
    /\ UNCHANGED <<poolVars, udids, max_workers, results, yielded, b_exc, timed_out, late, notBatch>>

\* What the elapsed timeout makes as_completed do: raise TimeoutError out of the
\* for loop (the try/except of the loop body does not enclose it).
AsCompletedTimeout == "TimeoutError"

\* The aggregate timeout elapses while as_completed still has futures to yield.
BatchTimeout ==
    /\ b_pc = "run"
    /\ AllSubmitted
    /\ yielded # DOMAIN udids
    /\ timed_out' = TRUE
    /\ late' = {i \in DOMAIN udids : fstate[i] # "finished"}
    /\ b_exc' = AsCompletedTimeout
    /\ b_pc' = "exit"
    /\ UNCHANGED <<poolVars, udids, max_workers, results, yielded, notBatch>>

\* ThreadPoolExecutor.__exit__ = shutdown(wait=True): the caller is blocked until
\* every queued work item has run and every worker has been joined; then
\* execute_batch returns `results`, or the pending exception propagates.
BatchExitWith ==
    /\ b_pc = "exit"
    /\ PoolDrained
    /\ num_threads' = 0
    /\ b_pc' = IF b_exc = Null THEN "returned" ELSE "raised"
    /\ UNCHANGED <<work_queue, idle_semaphore, fstate, fresult, outcome, op_calls, runs,
                   udids, max_workers, results, yielded, b_exc, timed_out, late, notBatch>>

NextBatch ==
    \/ BatchSubmit
    \/ \E i \in DOMAIN udids : BatchWorkerStart(i)
    \/ \E i \in DOMAIN udids : BatchWorkerFinish(i)
    \/ \E i \in DOMAIN udids : BatchCollect(i)
    \/ BatchLoopEnds
    \/ BatchTimeout
    \/ BatchExitWith

SpecBatch == InitBatch /\ [][NextBatch]_vars

\* ------------------------------------- ParallelDeviceExecutor / parallel_run
\* The target keys of the model (no Device is built here: func gets the udid).
PUdids == {"u1", "u2"}

\* max_workers = None (the default) is written 0.
NoneWorkers == 0

\* Work item slots: wait_for_completion can submit one placeholder task for
\* every task that has no future.
ParCapacity == 2 * MaxTasks

SeqsUpTo(S, n) == UNION {[1..k -> S] : k \in 0..n}

\* _create_executor: ThreadPoolExecutor(max_workers=self.max_workers); with None
\* the library takes min(32, cpu_count + 4), more than the tasks of the model.
ParPoolSize == IF max_workers = NoneWorkers THEN 32 ELSE max_workers

\* DeviceTask plus what its task_wrapper closes over: `func` is "func" (the
\* caller's function) or "lambda" (the placeholder `lambda: None`).
DeviceTask(udid, func, has_future) ==
    [udid |-> udid, func |-> func, has_future |-> has_future]

\* The entries of the dict get_results builds.
EntryValue(v) == [value |-> v, error |-> Null, status |-> Null]
EntryError(e) == [value |-> Null, error |-> e, status |-> Null]
EntryPending == [value |-> Null, error |-> Null, status |-> "pending"]

\* results[task.udid] = ...
DictSet(d, k, v) == [x \in (DOMAIN d) \cup {k} |-> IF x = k THEN v ELSE d[x]]

\* get_results, for one task: future.result() or {"error": str(e)}; a task
\* without a future is reported as pending.
GetResultNoExcept(t, fr) ==
    IF ~t.has_future THEN EntryPending
    ELSE EntryValue(fr.val)

GetResult(t, fr) ==
    IF ~t.has_future THEN EntryPending
    ELSE IF fr.exc = Null THEN EntryValue(fr.val)
    ELSE EntryError(fr.exc)

\* parallel_run's statements, in order; a with-body ("scope") may call anything.
CanCall(stmt) == p_pc = "body" /\ (p_mode = "scope" \/ p_next = stmt)
After(stmt) ==
    IF p_mode = "scope" THEN "any"
    ELSE IF stmt = "map" THEN "wait"
    ELSE IF stmt = "wait" THEN "get"
    ELSE "end"

InitPar ==
    /\ p_mode \in {"parallel_run", "scope"}
    /\ IF p_mode = "parallel_run" THEN udids \in SeqsUpTo(PUdids, MaxTasks) ELSE udids = <<>>
    /\ max_workers \in {NoneWorkers} \cup 1..MaxWorkers
    /\ InitPool(ParCapacity)
    /\ tasks = <<>>
    /\ executor = Null
    /\ p_next = IF p_mode = "parallel_run" THEN "map" ELSE "any"
    /\ p_pc = "body"
    /\ p_idx = 0
    /\ p_todo = <<>>
    /\ p_timeout = FALSE
    /\ p_results = <<>>
    /\ p_exc = Null
    /\ ParkedBatch
    /\ ParkedBreaker
    /\ ParkedRetry
    /\ ParkedRest

\* submit_task: the task is appended to self.tasks; with no executor it is
\* returned without a future, otherwise task_wrapper is submitted to the pool.
SubmitTask(u, f) ==
    /\ tasks' = Append(tasks, DeviceTask(u, f, executor' # Null))
    /\ IF executor' = Null
         THEN UNCHANGED <<work_queue, fstate, idle_semaphore, num_threads>>
         ELSE PoolSubmit(Len(tasks) + 1, ParPoolSize)

\* A with-body calls submit_task itself.
ScopeSubmitTask(u) ==
    /\ CanCall("submit")
    /\ Len(tasks) < MaxTasks
    /\ executor' = executor
    /\ SubmitTask(u, "func")
    /\ UNCHANGED <<fresult, outcome, op_calls, runs, udids, max_workers,
                   p_mode, p_next, p_pc, p_idx, p_todo, p_timeout, p_results, p_exc, notPar>>

\* map_tasks: create the executor if there is none, then submit_task per udid.
MapTasksBegin ==
    /\ CanCall("map")
    /\ \E us \in SeqsUpTo(PUdids, MaxTasks - Len(tasks)) :
          /\ p_mode = "parallel_run" => us = udids
          /\ p_mode = "scope" => us # <<>>
          /\ p_todo' = us
    /\ executor' = "pool"
    /\ p_pc' = "map"
    /\ UNCHANGED <<poolVars, udids, max_workers, tasks, p_mode, p_next, p_idx, p_timeout,
                   p_results, p_exc, notPar>>

MapTasksStep ==
    /\ p_pc = "map"
    /\ p_todo # <<>>
    /\ executor' = executor
    /\ SubmitTask(Head(p_todo), "func")
    /\ p_todo' = Tail(p_todo)
    /\ UNCHANGED <<fresult, outcome, op_calls, runs, udids, max_workers,
                   p_mode, p_next, p_pc, p_idx, p_timeout, p_results, p_exc, notPar>>

MapTasksReturn ==
    /\ p_pc = "map"
    /\ p_todo = <<>>
    /\ p_pc' = "body"
    /\ p_next' = After("map")
    /\ UNCHANGED <<poolVars, udids, max_workers, tasks, executor, p_mode, p_idx, p_todo,
                   p_timeout, p_results, p_exc, notPar>>

\* wait_for_completion(tasks=None, timeout): with no executor one is created
\* and the tasks without a future are gone through.
WaitBegin ==
    /\ CanCall("wait")
    /\ p_timeout' \in BOOLEAN
    /\ IF executor = Null
         THEN executor' = "pool" /\ p_pc' = "resubmit" /\ p_idx' = 1
         ELSE executor' = executor /\ p_pc' = "wait" /\ p_idx' = p_idx
    /\ UNCHANGED <<poolVars, udids, max_workers, tasks, p_mode, p_next, p_todo,
                   p_results, p_exc, notPar>>

\* for task in tasks: if not hasattr(task, "future"):
\*     self.submit_task(task.udid, lambda: None)
\* tasks is self.tasks, which submit_task appends to while it is iterated.
WaitResubmitStep ==
    /\ p_pc = "resubmit"
    /\ p_idx <= Len(tasks)
    /\ p_idx' = p_idx + 1
    /\ executor' = executor
    /\ IF tasks[p_idx].has_future
         THEN UNCHANGED <<tasks, work_queue, fstate, idle_semaphore, num_threads>>
         ELSE SubmitTask(tasks[p_idx].udid, "lambda")
    /\ UNCHANGED <<fresult, outcome, op_calls, runs, udids, max_workers,
                   p_mode, p_next, p_pc, p_todo, p_timeout, p_results, p_exc, notPar>>

WaitResubmitDone ==
    /\ p_pc = "resubmit"
    /\ p_idx > Len(tasks)
    /\ p_pc' = "wait"
    /\ UNCHANGED <<poolVars, udids, max_workers, tasks, executor, p_mode, p_next, p_idx,
                   p_todo, p_timeout, p_results, p_exc, notPar>>

\* futures = [task.future for task in tasks if hasattr(task, "future")]
WaitedFutures == {i \in DOMAIN tasks : tasks[i].has_future}
AllWaitedDone == \A i \in WaitedFutures : fstate[i] = "finished"

\* concurrent.futures.wait returns: every future is done ...
WaitReturns ==
    /\ p_pc = "wait"
    /\ AllWaitedDone
    /\ p_pc' = "body"
    /\ p_next' = After("wait")
    /\ p_timeout' = FALSE
    /\ p_idx' = 0
    /\ UNCHANGED <<poolVars, udids, max_workers, tasks, executor, p_mode, p_todo,
                   p_results, p_exc, notPar>>

\* ... or the timeout has elapsed (wait does not raise).
WaitTimeout ==
    /\ p_pc = "wait"
    /\ p_timeout
    /\ ~AllWaitedDone
    /\ p_pc' = "body"
    /\ p_next' = After("wait")
    /\ p_timeout' = FALSE
    /\ p_idx' = 0
    /\ UNCHANGED <<poolVars, udids, max_workers, tasks, executor, p_mode, p_todo,
                   p_results, p_exc, notPar>>

\* get_results(tasks=None)
GetResultsBegin ==
    /\ CanCall("get")
    /\ p_results' = <<>>
    /\ p_idx' = 1
    /\ p_pc' = "get"
    /\ UNCHANGED <<poolVars, udids, max_workers, tasks, executor, p_mode, p_next, p_todo,
                   p_timeout, p_exc, notPar>>

\* One iteration: task.future.result() blocks until the future is done.
GetResultsStep ==
    /\ p_pc = "get"
    /\ p_idx <= Len(tasks)
    /\ tasks[p_idx].has_future => fstate[p_idx] = "finished"
    /\ p_results' = DictSet(p_results, tasks[p_idx].udid,
                            GetResult(tasks[p_idx], fresult[p_idx]))
    /\ p_idx' = p_idx + 1
    /\ UNCHANGED <<poolVars, udids, max_workers, tasks, executor, p_mode, p_next, p_pc,
                   p_todo, p_timeout, p_exc, notPar>>

GetResultsReturn ==
    /\ p_pc = "get"
    /\ p_idx > Len(tasks)
    /\ p_pc' = "body"
    /\ p_next' = After("get")
    /\ p_idx' = 0
    /\ UNCHANGED <<poolVars, udids, max_workers, tasks, executor, p_mode, p_todo,
                   p_timeout, p_results, p_exc, notPar>>

\* The with-body ends (parallel_run: `return` inside the with block) ...
BodyEnd ==
    /\ CanCall("end")
    /\ p_pc' = "exit"
    /\ UNCHANGED <<poolVars, udids, max_workers, tasks, executor, p_mode, p_next, p_idx,
                   p_todo, p_timeout, p_results, p_exc, notPar>>

\* ... or raises between two calls.
BodyRaise ==
    /\ p_pc = "body"
    /\ p_mode = "scope"
    /\ p_exc' = "Exception"
    /\ p_pc' = "exit"
    /\ UNCHANGED <<poolVars, udids, max_workers, tasks, executor, p_mode, p_next, p_idx,
                   p_todo, p_timeout, p_results, notPar>>

\* shutdown(wait=True), as __exit__ calls it: executor.shutdown returns once
\* the queue is empty and every worker has been joined.
ShutdownNoWait == TRUE

ShutdownCanReturn == PoolDrained

\* __exit__: self.shutdown(): if self.executor: shutdown(wait); self.executor = None.
ExitScope ==
    /\ p_pc = "exit"
    /\ IF executor # Null
         THEN /\ ShutdownCanReturn
              /\ num_threads' = IF PoolDrained THEN 0 ELSE num_threads
         ELSE num_threads' = num_threads
    /\ executor' = Null
    /\ p_pc' = "done"
    /\ UNCHANGED <<work_queue, idle_semaphore, fstate, fresult, outcome, op_calls, runs,
                   udids, max_workers, tasks, p_mode, p_next, p_idx, p_todo, p_timeout,
                   p_results, p_exc, notPar>>

\* What one call func(udid, *args) can do.
ParOutcomes == {"value", "raise"}

\* A worker starts task_wrapper: func(udid) is called; the placeholder
\* `lambda: None` takes no argument, so calling it with udid raises TypeError.
ParWorkerStart(i) ==
    /\ PoolCanTake(i)
    /\ work_queue' = Tail(work_queue)
    /\ fstate' = [fstate EXCEPT ![i] = "running"]
    /\ runs' = [runs EXCEPT ![i] = @ + 1]
    /\ IF tasks[i].func = "func"
         THEN /\ \E o \in ParOutcomes : outcome' = [outcome EXCEPT ![i] = o]
              /\ op_calls' = [op_calls EXCEPT ![i] = @ + 1]
         ELSE /\ outcome' = [outcome EXCEPT ![i] = "typeerror"]
              /\ op_calls' = op_calls
    /\ UNCHANGED <<num_threads, idle_semaphore, fresult, udids, max_workers, parVars, notPar>>

\* task_wrapper returns func's value or re-raises its exception.
task_wrapper(t, o) ==
    IF o = "value" THEN FutureValue(t.udid)
    ELSE IF o = "raise" THEN FutureException("str(e)")
    ELSE FutureException("TypeError: <lambda>() takes 0 positional arguments")

ParWorkerFinish(i) ==
    /\ fstate[i] = "running"
    /\ fstate' = [fstate EXCEPT ![i] = "finished"]
    /\ fresult' = [fresult EXCEPT ![i] = task_wrapper(tasks[i], outcome[i])]
    /\ idle_semaphore' = idle_semaphore + 1
    /\ UNCHANGED <<work_queue, num_threads, outcome, op_calls, runs, udids, max_workers,
                   parVars, notPar>>

NextPar ==
    \/ \E u \in PUdids : ScopeSubmitTask(u)
    \/ MapTasksBegin
    \/ MapTasksStep
    \/ MapTasksReturn
    \/ WaitBegin
    \/ WaitResubmitStep
    \/ WaitResubmitDone
    \/ WaitReturns
    \/ WaitTimeout
    \/ GetResultsBegin
    \/ GetResultsStep
    \/ GetResultsReturn
    \/ BodyEnd
    \/ BodyRaise
    \/ ExitScope
    \/ \E i \in DOMAIN tasks : ParWorkerStart(i)
    \/ \E i \in DOMAIN tasks : ParWorkerFinish(i)

SpecParallel == InitPar /\ [][NextPar]_vars

\* ------------------------------------------------------------ CircuitBreaker
CbThreads == {"t1", "t2"}

\* The successes in half-open state that close the breaker
\* (`if self._success_count >= 2`).
HalfOpenSuccesses == 2

\* What the wrapped function does: returns, raises an exception matching
\* expected_exception, or raises another exception.
FuncOutcomes == {"success", "expected", "other"}

\* A step of call(): kind says what happened, invoked whether func was called
\* in that step, seq alternates so that every step of a call is visible.
CbEvent(kind, invoked) == [kind |-> kind, invoked |-> invoked, seq |-> 1 - cb_event.seq]

InitBreaker ==
    /\ failure_threshold \in 1..MaxThreshold
    /\ recovery_timeout \in 0..MaxRecovery
    /\ _state = "closed"
    /\ _failure_count = 0
    /\ _last_failure_time = 0
    /\ _success_count = 0
    /\ _lock = Null
    /\ now = 0
    /\ cb_event = [kind |-> "init", invoked |-> FALSE, seq |-> 0]
    /\ consec_failures = 0
    /\ ho_successes = 0
    /\ callers = {}
    /\ udids = <<>>
    /\ max_workers = 0
    /\ InitPool(0)
    /\ ParkedBatch
    /\ ParkedPar
    /\ ParkedRetry
    /\ ParkedRest

\* if time.time() - self._last_failure_time > self.recovery_timeout
RecoveryElapsedInclusive == now - _last_failure_time >= recovery_timeout

RecoveryElapsed == now - _last_failure_time > recovery_timeout

\* _on_failure, as an effect on the counters and the state.
OnFailureStrictThreshold ==
    /\ _failure_count' = _failure_count + 1
    /\ _last_failure_time' = now
    /\ _state' = IF _failure_count' > failure_threshold THEN "open" ELSE _state
    /\ _success_count' = _success_count

_on_failure ==
    /\ _failure_count' = _failure_count + 1
    /\ _last_failure_time' = now
    /\ _state' = IF _failure_count' >= failure_threshold THEN "open" ELSE _state
    /\ _success_count' = _success_count

\* _on_success
OnSuccessKeepsFailures ==
    /\ IF _state = "half_open"
         THEN /\ _success_count' = _success_count + 1
              /\ _state' = IF _success_count' >= 2 THEN "closed" ELSE _state
              /\ _failure_count' = _failure_count
         ELSE /\ _failure_count' = 0
              /\ _state' = _state
              /\ _success_count' = _success_count
    /\ _last_failure_time' = _last_failure_time

OnSuccessClosesAtOnce ==
    /\ IF _state = "half_open"
         THEN /\ _success_count' = _success_count + 1
              /\ _state' = "closed"
              /\ _failure_count' = 0
         ELSE /\ _failure_count' = 0
              /\ _state' = _state
              /\ _success_count' = _success_count
    /\ _last_failure_time' = _last_failure_time

_on_success ==
    /\ IF _state = "half_open"
         THEN /\ _success_count' = _success_count + 1
              /\ IF _success_count' >= HalfOpenSuccesses
                   THEN _state' = "closed" /\ _failure_count' = 0
                   ELSE _state' = _state /\ _failure_count' = _failure_count
         ELSE /\ _failure_count' = 0
              /\ _state' = _state
              /\ _success_count' = _success_count
    /\ _last_failure_time' = _last_failure_time

\* raise RuntimeError(...) while the breaker is open: nothing is recorded.
RejectCountsFailure == _on_failure

RejectCall == UNCHANGED <<_state, _failure_count, _last_failure_time, _success_count>>

\* with self._lock: the lock can be taken when no other thread holds it.
LockAlwaysFree == TRUE

LockFree == _lock = Null

\* self._state = CircuitBreakerState.HALF_OPEN; self._success_count = 0
EnterHalfOpenStaysOpen ==
    /\ _state' = _state
    /\ _success_count' = 0
    /\ UNCHANGED <<_failure_count, _last_failure_time>>

EnterHalfOpenResetsFailures ==
    /\ _state' = "half_open"
    /\ _success_count' = 0
    /\ _failure_count' = 0
    /\ _last_failure_time' = _last_failure_time

EnterHalfOpen ==
    /\ _state' = "half_open"
    /\ _success_count' = 0
    /\ UNCHANGED <<_failure_count, _last_failure_time>>

\* An exception that expected_exception does not match is not caught by
\* call(): no handler runs, the breaker keeps its fields.
OtherExceptionCountsSuccess == _on_success

OnOtherException == UNCHANGED <<_state, _failure_count, _last_failure_time, _success_count>>

\* call(), up to the invocation of func: the lock is taken; an open breaker
\* either moves to half-open or rejects the call (the lock is released by the
\* raise); otherwise func is invoked with the lock held.
CallBegin(t) ==
    /\ LockFree
    /\ IF _state = "open"
         THEN IF RecoveryElapsed
                THEN /\ EnterHalfOpen
                     /\ ho_successes' = 0
                     /\ _lock' = t
                     /\ cb_event' = CbEvent("probe", TRUE)
                ELSE /\ RejectCall
                     /\ ho_successes' = ho_successes
                     /\ _lock' = Null
                     /\ cb_event' = CbEvent("reject", FALSE)
         ELSE /\ UNCHANGED <<_state, _failure_count, _last_failure_time, _success_count,
                             ho_successes>>
              /\ _lock' = t
              /\ cb_event' = CbEvent("admit", TRUE)
    /\ callers' = callers \cup {t}
    /\ UNCHANGED <<failure_threshold, recovery_timeout, now, consec_failures, notBreaker>>

\* call(), from the return of func: _on_success, or _on_failure for an
\* exception matching expected_exception; any other exception passes through.
\* Leaving the with block releases the lock.
CallEnd(t, o) ==
    /\ _lock = t
    /\ _lock' = Null
    /\ IF o = "success"
         THEN /\ _on_success
              /\ consec_failures' = 0
              /\ ho_successes' = IF _state = "half_open" THEN ho_successes + 1
                                                          ELSE ho_successes
       ELSE IF o = "expected"
         THEN /\ _on_failure
              /\ consec_failures' = consec_failures + 1
              /\ ho_successes' = ho_successes
       ELSE /\ OnOtherException
            /\ UNCHANGED <<consec_failures, ho_successes>>
    /\ cb_event' = CbEvent(o, FALSE)
    /\ UNCHANGED <<failure_threshold, recovery_timeout, now, callers, notBreaker>>

\* reset()
Reset ==
    /\ LockFree
    /\ _state' = "closed"
    /\ _failure_count' = 0
    /\ _success_count' = 0
    /\ _last_failure_time' = 0
    /\ consec_failures' = 0
    /\ ho_successes' = 0
    /\ cb_event' = CbEvent("reset", FALSE)
    /\ UNCHANGED <<failure_threshold, recovery_timeout, _lock, now, callers, notBreaker>>

\* Time passes (also while func runs).
Tick ==
    /\ now < MaxTime
    /\ now' = now + 1
    /\ UNCHANGED <<failure_threshold, recovery_timeout, _state, _failure_count,
                   _last_failure_time, _success_count, _lock, cb_event, consec_failures,
                   ho_successes, callers, notBreaker>>

NextBreaker ==
    \/ \E t \in CbThreads : CallBegin(t)
    \/ \E t \in CbThreads : \E o \in FuncOutcomes : CallEnd(t, o)
    \/ Reset
    \/ Tick

SpecBreaker == InitBreaker /\ [][NextBreaker]_vars

\* The breaker when the wrapped function stops failing: func raises only up
\* to the time FailuresUntil, which leaves the clock room for the longest
\* recovery_timeout; calls go on being made, func goes on returning and time
\* goes on passing.
FailuresUntil == MaxTime - MaxRecovery - 1

NextBreakerLive ==
    \/ \E t \in CbThreads : CallBegin(t)
    \/ \E t \in CbThreads : \E o \in FuncOutcomes :
           /\ o # "success" => now <= FailuresUntil
           /\ CallEnd(t, o)
    \/ Reset
    \/ Tick

SpecBreakerLive ==
    /\ InitBreaker
    /\ [][NextBreakerLive]_vars
    /\ WF_vars(Tick)
    /\ WF_vars(\E t \in CbThreads : CallBegin(t))
    /\ WF_vars(\E t \in CbThreads : CallEnd(t, "success"))

\* ------------------------------------------------------------- RetryManager
\* Delays are whole numbers of tenths of a second, and multiples of ten of
\* them, so that the 10%..30% jitter is a whole number too.
RetryStrategy == {"fixed", "exponential", "linear", "custom"}

\* RetryConfig
RetryConfigs ==
    [max_retries : 0..MaxRetries,
     base_delay : {10 * k : k \in 0..MaxBaseDelay},
     max_delay : {10 * k : k \in 0..MaxDelayCap},
     backoff_factor : 1..MaxFactor,
     strategy : RetryStrategy,
     jitter : BOOLEAN]

\* The configurations execute() is run with: the delay parameters do not
\* influence its control flow.
RunConfigs(n) ==
    {c \in RetryConfigs :
        /\ c.max_retries <= n
        /\ c.base_delay = 10
        /\ c.max_delay = 20
        /\ c.backoff_factor = 2
        /\ c.strategy = "exponential"
        /\ ~c.jitter}

RECURSIVE Pow(_, _)
Pow(b, e) == IF e = 0 THEN 1 ELSE b * Pow(b, e - 1)

Min(a, b) == IF a <= b THEN a ELSE b

\* _calculate_delay: the delay of the strategy
StrategyDelay(a) ==
    IF config.strategy = "fixed" THEN config.base_delay
    ELSE IF config.strategy = "exponential"
      THEN config.base_delay * Pow(config.backoff_factor, a)
    ELSE IF config.strategy = "linear" THEN config.base_delay * (a + 1)
    ELSE config.base_delay

\* delay = min(delay, self.config.max_delay)
ClampDelayNone(d) == d

ClampDelay(d) == Min(d, config.max_delay)

\* if self.config.jitter: delay += random.uniform(0.1, 0.3) * delay
Jittered(d) ==
    IF config.jitter THEN {d + j : j \in (d \div 10)..((3 * d) \div 10)} ELSE {d}

\* _calculate_delay(attempt): the values it can return
_calculate_delay(a) == Jittered(ClampDelay(StrategyDelay(a)))

\* ---- _calculate_delay on its own
InitDelay ==
    /\ config \in RetryConfigs
    /\ ParkedDelay
    /\ ParkedRetryRun
    /\ udids = <<>>
    /\ max_workers = 0
    /\ InitPool(0)
    /\ ParkedBatch
    /\ ParkedPar
    /\ ParkedBreaker
    /\ ParkedRest

CalculateDelay(a) ==
    /\ d_attempt' = a
    /\ d_delay' \in _calculate_delay(a)
    /\ UNCHANGED <<config, retryVars, notRetry>>

NextDelay == \E a \in 0..MaxRetries : CalculateDelay(a)

SpecDelay == InitDelay /\ [][NextDelay]_vars

\* ---- execute()
SeqThreads == {"r1"}
ConcThreads == {"r1", "r2"}
FuncNames == {"f", "g"}

\* What one invocation of func does: it returns, raises an error matched by
\* config.exceptions, or raises another error.
RetryOutcomes == {"success", "retryable", "other"}

\* except self.config.exceptions as e
RetryableAny(o) == o # "success"

Retryable(o) == o = "retryable"

\* if attempt < self.config.max_retries
MoreAttemptsInclusive(a) == a <= config.max_retries

MoreAttempts(a) == a < config.max_retries

\* {'success': 0, 'failure': 0, 'retries': 0}
ZeroStats == [success |-> 0, failure |-> 0, retries |-> 0]

NoResult == [kind |-> "none", exc |-> 0]

Upd(f, t, v) == [f EXCEPT ![t] = v]

InitRetryRun(threads, calls, n) ==
    /\ config \in RunConfigs(n)
    /\ _retry_stats = [nm \in FuncNames |-> 0]
    /\ stat_dicts = <<>>
    /\ r_pc = [t \in threads |-> "idle"]
    /\ func_name = [t \in threads |-> Null]
    /\ attempt = [t \in threads |-> 0]
    /\ last_exception = [t \in threads |-> 0]
    /\ r_field = [t \in threads |-> "-"]
    /\ r_ref = [t \in threads |-> 0]
    /\ r_tmp = [t \in threads |-> 0]
    /\ r_delay = [t \in threads |-> 0]
    /\ r_out = [t \in threads |-> "-"]
    /\ r_result = [t \in threads |-> NoResult]
    /\ calls_left = [t \in threads |-> calls]
    /\ c_inv = [t \in threads |-> 0]
    /\ c_sleeps = [t \in threads |-> 0]
    /\ c_failed = [t \in threads |-> 0]
    /\ invocations = [nm \in FuncNames |-> 0]
    /\ incs = [nm \in FuncNames |-> ZeroStats]
    /\ calls_since_reset = 0
    /\ ParkedDelay
    /\ udids = <<>>
    /\ max_workers = 0
    /\ InitPool(0)
    /\ ParkedBatch
    /\ ParkedPar
    /\ ParkedBreaker
    /\ ParkedRest

\* One thread calling execute() and reset_stats() in turn.
InitRetry == InitRetryRun(SeqThreads, MaxCalls, MaxRetries)

\* Two threads, each calling execute() once on the same RetryManager.
InitRetryConc == InitRetryRun(ConcThreads, 1, MaxConcRetries)

\* execute(): func_name = getattr(func, '__name__', str(func)); last_exception = None
ExecuteBegin(t, nm) ==
    /\ r_pc[t] = "idle"
    /\ calls_left[t] > 0
    /\ calls_left' = Upd(calls_left, t, calls_left[t] - 1)
    /\ r_pc' = Upd(r_pc, t, "invoke")
    /\ func_name' = Upd(func_name, t, nm)
    /\ attempt' = Upd(attempt, t, 0)
    /\ last_exception' = Upd(last_exception, t, 0)
    /\ r_delay' = Upd(r_delay, t, 0)
    /\ r_out' = Upd(r_out, t, "-")
    /\ r_result' = Upd(r_result, t, NoResult)
    /\ c_inv' = Upd(c_inv, t, 0)
    /\ c_sleeps' = Upd(c_sleeps, t, 0)
    /\ c_failed' = Upd(c_failed, t, 0)
    /\ calls_since_reset' = Min(calls_since_reset + 1, 2)
    /\ UNCHANGED <<config, _retry_stats, stat_dicts, r_field, r_ref, r_tmp, invocations, incs,
                   delayVars, notRetry>>

\* result = func(*args, **kwargs) inside the try of the loop body: a return
\* goes on to count the success, an error matched by config.exceptions is
\* kept as last_exception and goes on to count the failure, any other error
\* leaves execute() at once.
Invoke(t, o) ==
    /\ r_pc[t] = "invoke"
    /\ r_out' = Upd(r_out, t, o)
    /\ c_inv' = Upd(c_inv, t, c_inv[t] + 1)
    /\ invocations' = Upd(invocations, func_name[t], invocations[func_name[t]] + 1)
    /\ IF o = "success"
         THEN /\ r_pc' = Upd(r_pc, t, "check")
              /\ r_field' = Upd(r_field, t, "success")
              /\ UNCHANGED <<last_exception, c_failed, r_result, attempt>>
       ELSE IF Retryable(o)
         THEN /\ r_pc' = Upd(r_pc, t, "check")
              /\ r_field' = Upd(r_field, t, "failure")
              /\ last_exception' = Upd(last_exception, t, attempt[t] + 1)
              /\ c_failed' = Upd(c_failed, t, c_failed[t] + 1)
              /\ UNCHANGED <<r_result, attempt>>
       ELSE /\ r_pc' = Upd(r_pc, t, "idle")
            /\ r_result' = Upd(r_result, t, [kind |-> "raised", exc |-> attempt[t] + 1])
            /\ attempt' = Upd(attempt, t, 0)
            /\ last_exception' = Upd(last_exception, t, 0)
            /\ UNCHANGED <<r_field, c_failed>>
    /\ UNCHANGED <<config, _retry_stats, stat_dicts, func_name, r_ref, r_tmp, r_delay,
                   calls_left, c_sleeps, incs, calls_since_reset, delayVars, notRetry>>

\* if func_name not in self._retry_stats
StatCheck(t) ==
    /\ r_pc[t] = "check"
    /\ r_pc' = Upd(r_pc, t, IF _retry_stats[func_name[t]] = 0 THEN "init" ELSE "ref")
    /\ UNCHANGED <<config, _retry_stats, stat_dicts, func_name, attempt, last_exception,
                   r_field, r_ref, r_tmp, r_delay, r_out, r_result, calls_left, c_inv,
                   c_sleeps, c_failed, invocations, incs, calls_since_reset, delayVars,
                   notRetry>>

\* self._retry_stats[func_name] = {'success': 0, 'failure': 0, 'retries': 0}
StatInit(t) ==
    /\ r_pc[t] = "init"
    /\ stat_dicts' = Append(stat_dicts, ZeroStats)
    /\ _retry_stats' = Upd(_retry_stats, func_name[t], Len(stat_dicts) + 1)
    /\ r_pc' = Upd(r_pc, t, "ref")
    /\ UNCHANGED <<config, func_name, attempt, last_exception, r_field, r_ref, r_tmp,
                   r_delay, r_out, r_result, calls_left, c_inv, c_sleeps, c_failed,
                   invocations, incs, calls_since_reset, delayVars, notRetry>>

\* self._retry_stats[func_name][...] += 1, first load: the inner dict of the
\* name (KeyError when the name has no entry).
StatRef(t) ==
    /\ r_pc[t] = "ref"
    /\ IF _retry_stats[func_name[t]] = 0
         THEN /\ r_pc' = Upd(r_pc, t, "idle")
              /\ r_result' = Upd(r_result, t, [kind |-> "key_error", exc |-> 0])
              /\ attempt' = Upd(attempt, t, 0)
              /\ last_exception' = Upd(last_exception, t, 0)
              /\ r_field' = Upd(r_field, t, "-")
              /\ r_ref' = r_ref
         ELSE /\ r_pc' = Upd(r_pc, t, "val")
              /\ r_ref' = Upd(r_ref, t, _retry_stats[func_name[t]])
              /\ UNCHANGED <<r_result, attempt, last_exception, r_field>>
    /\ UNCHANGED <<config, _retry_stats, stat_dicts, func_name, r_tmp, r_delay, r_out,
                   calls_left, c_inv, c_sleeps, c_failed, invocations, incs,
                   calls_since_reset, delayVars, notRetry>>

\* ... second load: the value of the counter in that inner dict.
StatVal(t) ==
    /\ r_pc[t] = "val"
    /\ r_tmp' = Upd(r_tmp, t, stat_dicts[r_ref[t]][r_field[t]])
    /\ r_pc' = Upd(r_pc, t, "store")
    /\ UNCHANGED <<config, _retry_stats, stat_dicts, func_name, attempt, last_exception,
                   r_field, r_ref, r_delay, r_out, r_result, calls_left, c_inv, c_sleeps,
                   c_failed, invocations, incs, calls_since_reset, delayVars, notRetry>>

\* ... the store of the loaded value plus one into that inner dict, and what
\* follows it: return result after 'success'; after 'failure' the test
\* attempt < max_retries, then the sleep, or break and raise last_exception;
\* after 'retries' the next iteration of the loop.
StatStore(t) ==
    /\ r_pc[t] = "store"
    /\ stat_dicts' = [stat_dicts EXCEPT ![r_ref[t]][r_field[t]] = r_tmp[t] + 1]
    /\ incs' = [incs EXCEPT ![func_name[t]][r_field[t]] = @ + 1]
    /\ r_ref' = Upd(r_ref, t, 0)
    /\ r_tmp' = Upd(r_tmp, t, 0)
    /\ IF r_field[t] = "success"
         THEN /\ r_pc' = Upd(r_pc, t, "idle")
              /\ r_result' = Upd(r_result, t, [kind |-> "returned", exc |-> 0])
              /\ attempt' = Upd(attempt, t, 0)
              /\ last_exception' = Upd(last_exception, t, 0)
              /\ r_field' = Upd(r_field, t, "-")
       ELSE IF r_field[t] = "failure"
         THEN IF MoreAttempts(attempt[t])
                THEN /\ r_pc' = Upd(r_pc, t, "sleep")
                     /\ UNCHANGED <<r_result, attempt, last_exception, r_field>>
                ELSE /\ r_pc' = Upd(r_pc, t, "idle")
                     /\ r_result' = Upd(r_result, t,
                                        [kind |-> "raised", exc |-> last_exception[t]])
                     /\ attempt' = Upd(attempt, t, 0)
                     /\ last_exception' = Upd(last_exception, t, 0)
                     /\ r_field' = Upd(r_field, t, "-")
       ELSE IF attempt[t] + 1 <= config.max_retries
         THEN /\ r_pc' = Upd(r_pc, t, "invoke")
              /\ attempt' = Upd(attempt, t, attempt[t] + 1)
              /\ r_field' = Upd(r_field, t, "-")
              /\ UNCHANGED <<r_result, last_exception>>
       ELSE /\ r_pc' = Upd(r_pc, t, "idle")
            /\ r_result' = Upd(r_result, t, [kind |-> "raised", exc |-> last_exception[t]])
            /\ attempt' = Upd(attempt, t, 0)
            /\ last_exception' = Upd(last_exception, t, 0)
            /\ r_field' = Upd(r_field, t, "-")
    /\ UNCHANGED <<config, _retry_stats, func_name, r_delay, r_out, calls_left, c_inv,
                   c_sleeps, c_failed, invocations, calls_since_reset, delayVars, notRetry>>

\* delay = self._calculate_delay(attempt); time.sleep(delay); what follows is
\* self._retry_stats[func_name]['retries'] += 1, without the membership test.
Sleep(t) ==
    /\ r_pc[t] = "sleep"
    /\ \E d \in _calculate_delay(attempt[t]) : r_delay' = Upd(r_delay, t, d)
    /\ c_sleeps' = Upd(c_sleeps, t, c_sleeps[t] + 1)
    /\ r_field' = Upd(r_field, t, "retries")
    /\ r_pc' = Upd(r_pc, t, "ref")
    /\ UNCHANGED <<config, _retry_stats, stat_dicts, func_name, attempt, last_exception,
                   r_ref, r_tmp, r_out, r_result, calls_left, c_inv,
                   c_failed, invocations, incs, calls_since_reset, delayVars, notRetry>>

\* self._retry_stats.clear()
ClearKeepsEntries == _retry_stats

ClearedStats == [nm \in FuncNames |-> 0]

\* reset_stats(): self._retry_stats.clear(), called between two execute()
\* calls of the thread. The inner dicts go with their entries.
reset_stats ==
    /\ \A t \in DOMAIN r_pc : r_pc[t] = "idle"
    /\ _retry_stats' = ClearedStats
    /\ stat_dicts' = IF \A nm \in FuncNames : _retry_stats'[nm] = 0 THEN <<>> ELSE stat_dicts
    /\ invocations' = [nm \in FuncNames |-> 0]
    /\ incs' = [nm \in FuncNames |-> ZeroStats]
    /\ calls_since_reset' = 0
    /\ UNCHANGED <<config, r_pc, func_name, attempt, last_exception, r_field, r_ref, r_tmp,
                   r_delay, r_out, r_result, calls_left, c_inv, c_sleeps, c_failed,
                   delayVars, notRetry>>

\* get_stats(): the counters of a name; a name without an entry has counted
\* nothing.
get_stats(nm) == IF _retry_stats[nm] = 0 THEN ZeroStats ELSE stat_dicts[_retry_stats[nm]]

ExecuteStep(t) ==
    \/ \E nm \in FuncNames : ExecuteBegin(t, nm)
    \/ \E o \in RetryOutcomes : Invoke(t, o)
    \/ StatCheck(t)
    \/ StatInit(t)
    \/ StatRef(t)
    \/ StatVal(t)
    \/ StatStore(t)
    \/ Sleep(t)

NextRetry ==
    \/ \E t \in SeqThreads : ExecuteStep(t)
    \/ reset_stats

SpecRetry == InitRetry /\ [][NextRetry]_vars

NextRetryConc == \E t \in ConcThreads : ExecuteStep(t)

SpecRetryConc == InitRetryConc /\ [][NextRetryConc]_vars

\* ----------------------------------------------------------- ConnectionPool
\* self._cleanup_thread.join(timeout=5.0)
JoinTimeout == 5

CpEvent(kind, id) == [kind |-> kind, id |-> id, seq |-> 1 - cp_event.seq]

\* __init__: no record, the cleanup thread started and waiting.
InitConnPool ==
    /\ max_connections \in 0..MaxConns
    /\ idle_timeout \in 0..MaxIdle
    /\ _connections = <<>>
    /\ clock = 0
    /\ _stop_cleanup = FALSE
    /\ cl_pc = "waiting"
    /\ current_time = 0
    /\ expired_connections = <<>>
    /\ close_pc = "-"
    /\ join_deadline = 0
    /\ cp_event = [kind |-> "init", id |-> -1, seq |-> 0]
    /\ udids = <<>>
    /\ max_workers = 0
    /\ InitPool(0)
    /\ ParkedBatch
    /\ ParkedPar
    /\ ParkedBreaker
    /\ ParkedRetry
    /\ ParkedHealth
    /\ ParkedTimeout

\* for conn_id, conn_info in self._connections.items(): if conn_info.is_active
ActiveAtNone == {}

ActiveAt == {i \in 1..Len(_connections) : _connections[i].is_active}

\* if len(self._connections) < self.max_connections
HasRoomInclusive == Len(_connections) <= max_connections

HasRoom == Len(_connections) < max_connections

\* self._connections[conn_id] = conn_info, conn_id being made of the time
NewConnection ==
    LET c == [id |-> clock, last_used |-> clock, is_active |-> TRUE]
        at == {i \in 1..Len(_connections) : _connections[i].id = clock}
    IN  IF at = {} THEN Append(_connections, c)
        ELSE [i \in 1..Len(_connections) |-> IF i \in at THEN c ELSE _connections[i]]

\* raise RuntimeError(...): the pool is full
RejectAcquireCreates == _connections' = NewConnection

RejectAcquire == _connections' = _connections

\* self._connections[conn_id].last_used = time.time()
TouchedAll(c) == [i \in 1..Len(_connections) |-> [_connections[i] EXCEPT !.last_used = clock]]

Touched(c) ==
    [i \in 1..Len(_connections) |->
        IF _connections[i].id = c THEN [_connections[i] EXCEPT !.last_used = clock]
                                  ELSE _connections[i]]

\* _acquire_connection, under the lock
Acquire ==
    /\ IF ActiveAt # {}
         THEN LET i == CHOOSE k \in ActiveAt : \A j \in ActiveAt : k <= j
              IN  /\ _connections' = Touched(_connections[i].id)
                  /\ cp_event' = CpEvent("reused", _connections[i].id)
       ELSE IF HasRoom
         THEN /\ _connections' = NewConnection
              /\ cp_event' = CpEvent("created", clock)
       ELSE /\ RejectAcquire
            /\ cp_event' = CpEvent("exhausted", -1)
    /\ UNCHANGED <<max_connections, idle_timeout, clock, _stop_cleanup, cl_pc, current_time,
                   expired_connections, close_pc, join_deadline, notConnPool>>

\* The ids release is called with: the id of a record of the pool, or (-1) an
\* id the pool does not track.
ReleaseArgs == {_connections[i].id : i \in 1..Len(_connections)} \cup {-1}

\* _release_connection(conn_id), under the lock
Release(c) ==
    /\ _connections' = Touched(c)
    /\ cp_event' = CpEvent("released", c)
    /\ UNCHANGED <<max_connections, idle_timeout, clock, _stop_cleanup, cl_pc, current_time,
                   expired_connections, close_pc, join_deadline, notConnPool>>

\* _cleanup_worker: self._stop_cleanup.wait(self.cleanup_interval) has timed
\* out; _cleanup_expired_connections reads the time.
SweepBegin ==
    /\ cl_pc = "waiting"
    /\ ~_stop_cleanup
    /\ cl_pc' = "scan"
    /\ current_time' = clock
    /\ UNCHANGED <<max_connections, idle_timeout, _connections, clock, _stop_cleanup,
                   expired_connections, close_pc, join_deadline, cp_event,
                   notConnPool>>

\* ... the scan under the lock: if (current_time - conn_info.last_used) > self.idle_timeout
SweepScan ==
    /\ cl_pc = "scan"
    /\ expired_connections' =
          LET Exp(r) == current_time - r.last_used > idle_timeout
              ids == [i \in 1..Len(_connections) |-> _connections[i].id]
          IN  SelectSeq(ids, LAMBDA c :
                  \E i \in 1..Len(_connections) :
                      _connections[i].id = c /\ Exp(_connections[i]))
    /\ cl_pc' = "remove"
    /\ UNCHANGED <<max_connections, idle_timeout, _connections, clock, _stop_cleanup,
                   current_time, close_pc, join_deadline, cp_event, notConnPool>>

\* ... for conn_id in expired_connections: self._remove_connection(conn_id),
\* each under the lock taken anew.
SweepRemove ==
    /\ cl_pc = "remove"
    /\ expired_connections # <<>>
    /\ LET c == Head(expired_connections)
       IN  /\ _connections' = SelectSeq(_connections, LAMBDA r : r.id # c)
           /\ cp_event' = CpEvent("swept", -1)
    /\ expired_connections' = Tail(expired_connections)
    /\ UNCHANGED <<max_connections, idle_timeout, clock, _stop_cleanup, cl_pc, current_time,
                   close_pc, join_deadline, notConnPool>>

\* ... the sweep is over; the worker waits again.
SweepEnd ==
    /\ cl_pc = "remove"
    /\ expired_connections = <<>>
    /\ cl_pc' = "waiting"
    /\ current_time' = 0
    /\ UNCHANGED <<max_connections, idle_timeout, _connections, clock, _stop_cleanup,
                   expired_connections, close_pc, join_deadline, cp_event,
                   notConnPool>>

\* _cleanup_worker: wait() returns True once the event is set; the thread ends.
WorkerExit ==
    /\ cl_pc = "waiting"
    /\ _stop_cleanup
    /\ cl_pc' = "dead"
    /\ UNCHANGED <<max_connections, idle_timeout, _connections, clock, _stop_cleanup,
                   current_time, expired_connections, close_pc, join_deadline, cp_event,
                   notConnPool>>

\* close(): self._stop_cleanup.set(), then the join begins.
CloseBegin ==
    /\ close_pc = "-"
    /\ _stop_cleanup' = TRUE
    /\ close_pc' = "joining"
    /\ join_deadline' = clock + JoinTimeout
    /\ UNCHANGED <<max_connections, idle_timeout, _connections, clock, cl_pc, current_time,
                   expired_connections, cp_event, notConnPool>>

\* close(): join(timeout=5.0) returns, because the thread has ended or
\* because the five seconds are over; self._connections.clear().
CloseReturn ==
    /\ close_pc = "joining"
    /\ cl_pc = "dead" \/ clock >= join_deadline
    /\ _connections' = <<>>
    /\ close_pc' = "returned"
    /\ join_deadline' = 0
    /\ cp_event' = CpEvent("cleared", -1)
    /\ UNCHANGED <<max_connections, idle_timeout, clock, _stop_cleanup, cl_pc, current_time,
                   expired_connections, notConnPool>>

PoolTick ==
    /\ clock < MaxClock
    /\ clock' = clock + 1
    /\ UNCHANGED <<max_connections, idle_timeout, _connections, _stop_cleanup, cl_pc,
                   current_time, expired_connections, close_pc, join_deadline, cp_event,
                   notConnPool>>

NextConnPool ==
    \/ Acquire
    \/ \E c \in ReleaseArgs : Release(c)
    \/ SweepBegin
    \/ SweepScan
    \/ SweepRemove
    \/ SweepEnd
    \/ WorkerExit
    \/ CloseBegin
    \/ CloseReturn
    \/ PoolTick

SpecConnPool == InitConnPool /\ [][NextConnPool]_vars

\* ------------------------------------------------------------ HealthChecker
\* The names of the checks that get registered.
HcNames == 1..MaxChecks

\* What a probe does: it returns a true value, returns a false value, raises
\* an Exception, or is cut off by the alarm.
ProbeOutcomes == {"pass", "fail", "raise", "timeout"}

\* _execute_check: bool(result), or False for any Exception (the TimeoutError
\* of the alarm included).
ExecuteCheckSwallows(o) == o # "fail"

_execute_check(o) == o = "pass"

\* check_health: the status for healthy_checks / total_checks
OverallStatusStrictHalf(h, n) ==
    IF 10 * h >= 9 * n THEN "healthy"
    ELSE IF 2 * h > n THEN "degraded"
    ELSE "unhealthy"

OverallStatus(h, n) ==
    IF 10 * h >= 9 * n THEN "healthy"
    ELSE IF 2 * h >= n THEN "degraded"
    ELSE "unhealthy"

\* d[k] = v and del d[k] on a dict
DictPut(d, k, v) == [x \in (DOMAIN d) \cup {k} |-> IF x = k THEN v ELSE d[x]]
DictDel(d, k) == [x \in (DOMAIN d) \ {k} |-> d[x]]

HcResult(kind, status, n, q) ==
    [kind |-> kind, status |-> status, n |-> n, p |-> q, seq |-> 1 - h_result.seq]

\* The counter updates for a failed probe: self._failure_counts[name] += 1;
\* self._recovery_counts[name] = 0
CountFailureKeepsRecovery(nm) ==
    /\ _failure_counts' = [_failure_counts EXCEPT ![nm] = @ + 1]
    /\ _recovery_counts' = _recovery_counts

CountFailure(nm) ==
    /\ _failure_counts' = [_failure_counts EXCEPT ![nm] = @ + 1]
    /\ _recovery_counts' = DictPut(_recovery_counts, nm, 0)

\* if len(self._status_history) > 1000: keep [-500:]
StatusHistoryMax == 1000
StatusHistoryKeep == 500

InitHealthWith(names, nruns, history) ==
    /\ _checks = names
    /\ _failure_counts = [i \in 1..Len(names) |-> 0]
    /\ _recovery_counts = [i \in 1..Len(names) |-> 0]
    /\ _status_history = history
    /\ _current_status = "unknown"
    /\ h_pc = "idle"
    /\ healthy_checks = 0
    /\ total_checks = 0
    /\ it_pos = 0
    /\ it_broken = FALSE
    /\ h_cur = 0
    /\ probe_mutated = FALSE
    /\ passed = 0
    /\ h_out = "-"
    /\ h_runs = nruns
    /\ h_result = [kind |-> "none", status |-> "-", n |-> 0, p |-> 0, seq |-> 0]
    /\ udids = <<>>
    /\ max_workers = 0
    /\ InitPool(0)
    /\ ParkedBatch
    /\ ParkedPar
    /\ ParkedBreaker
    /\ ParkedRetry
    /\ ParkedConnPool
    /\ ParkedTimeout

\* HealthChecker(): nothing registered.
InitHealth == InitHealthWith(<<>>, 0, <<>>)

\* A checker on which checks 1..n have been registered, with one run to go.
InitHealthWide == \E n \in 0..MaxProbes : InitHealthWith([i \in 1..n |-> i], MaxRuns - 1, <<>>)

\* A checker with checks 1..n registered whose history holds 999 or 1000
\* entries, the three statuses in turn, with two runs to go.
InitHealthFull ==
    \E n \in 0..MaxChecks : \E len \in (StatusHistoryMax - 1)..StatusHistoryMax :
        InitHealthWith([i \in 1..n |-> i], MaxRuns - 2,
                       [i \in 1..len |-> <<"healthy", "degraded", "unhealthy">>[(i % 3) + 1]])

\* add_check(check), under the lock: between runs, or from inside a probe of
\* the run in progress (the lock is re-entrant).
AddCheck(nm) ==
    /\ h_pc = "idle" \/ (h_pc = "probe" /\ ~probe_mutated)
    /\ _checks' = IF \E i \in 1..Len(_checks) : _checks[i] = nm THEN _checks
                  ELSE Append(_checks, nm)
    /\ _failure_counts' = DictPut(_failure_counts, nm, 0)
    /\ _recovery_counts' = DictPut(_recovery_counts, nm, 0)
    /\ probe_mutated' = (h_pc = "probe")
    /\ it_broken' = (it_broken \/ (h_pc = "probe" /\ _checks' # _checks))
    /\ UNCHANGED <<_status_history, _current_status, h_pc, healthy_checks, total_checks,
                   it_pos, h_cur, passed, h_out, h_runs, h_result, notHealth>>

\* remove_check(name), likewise
RemoveCheck(nm) ==
    /\ h_pc = "idle" \/ (h_pc = "probe" /\ ~probe_mutated)
    /\ IF \E i \in 1..Len(_checks) : _checks[i] = nm
         THEN /\ _checks' = SelectSeq(_checks, LAMBDA x : x # nm)
              /\ _failure_counts' = DictDel(_failure_counts, nm)
              /\ _recovery_counts' = DictDel(_recovery_counts, nm)
         ELSE UNCHANGED <<_checks, _failure_counts, _recovery_counts>>
    /\ probe_mutated' = (h_pc = "probe")
    /\ it_broken' = (it_broken \/ (h_pc = "probe" /\ _checks' # _checks))
    /\ UNCHANGED <<_status_history, _current_status, h_pc, healthy_checks, total_checks,
                   it_pos, h_cur, passed, h_out, h_runs, h_result, notHealth>>

\* check_health, entry: with no check registered the status is UNKNOWN and
\* the call returns at once; otherwise the loop over self._checks.items()
\* begins.
RunBegin ==
    /\ h_pc = "idle"
    /\ h_runs < MaxRuns
    /\ h_runs' = h_runs + 1
    /\ IF _checks = <<>>
         THEN /\ _current_status' = "unknown"
              /\ h_result' = HcResult("returned", "unknown", 0, 0)
              /\ UNCHANGED <<h_pc, healthy_checks, total_checks, it_pos, it_broken, passed>>
         ELSE /\ h_pc' = "loop"
              /\ healthy_checks' = 0
              /\ total_checks' = Len(_checks)
              /\ it_pos' = 1
              /\ it_broken' = FALSE
              /\ passed' = 0
              /\ UNCHANGED <<_current_status, h_result>>
    /\ UNCHANGED <<_checks, _failure_counts, _recovery_counts, _status_history, h_cur,
                   probe_mutated, h_out, notHealth>>

\* if len(self._status_history) > 1000:
\*     self._status_history = self._status_history[-500:]
TrimmedToOldest(hist) ==
    IF Len(hist) > StatusHistoryMax THEN SubSeq(hist, 1, StatusHistoryKeep) ELSE hist

Trimmed(hist) ==
    IF Len(hist) > StatusHistoryMax
      THEN SubSeq(hist, Len(hist) - StatusHistoryKeep + 1, Len(hist))
      ELSE hist

\* check_health, the for statement: the iterator raises RuntimeError when the
\* keys of the dict have changed; otherwise the next probe is started or,
\* after the last one, the status is computed from healthy_checks /
\* total_checks, appended to the history (cut to its last 500 entries beyond
\* 1000) and returned.
LoopNext ==
    /\ h_pc = "loop"
    /\ IF it_broken
         THEN /\ h_pc' = "idle"
              /\ h_result' = HcResult("raised", "-", total_checks, passed)
              /\ healthy_checks' = 0
              /\ total_checks' = 0
              /\ it_pos' = 0
              /\ it_broken' = FALSE
              /\ passed' = 0
              /\ UNCHANGED <<_status_history, _current_status, h_cur, probe_mutated>>
       ELSE IF it_pos > Len(_checks)
         THEN LET st == OverallStatus(healthy_checks, total_checks)
                  hist == Append(_status_history, st)
              IN  /\ _current_status' = st
                  /\ _status_history' = Trimmed(hist)
                  /\ h_result' = HcResult("returned", st, total_checks, passed)
                  /\ h_pc' = "idle"
                  /\ healthy_checks' = 0
                  /\ total_checks' = 0
                  /\ it_pos' = 0
                  /\ passed' = 0
                  /\ UNCHANGED <<it_broken, h_cur, probe_mutated>>
       ELSE /\ h_cur' = _checks[it_pos]
            /\ it_pos' = it_pos + 1
            /\ h_pc' = "probe"
            /\ probe_mutated' = FALSE
            /\ UNCHANGED <<_status_history, _current_status, h_result, healthy_checks,
                           total_checks, it_broken, passed>>
    /\ UNCHANGED <<_checks, _failure_counts, _recovery_counts, h_out, h_runs, notHealth>>

\* check_health, the loop body from the return of _execute_check. A name
\* whose counters were deleted by its own probe makes the update raise
\* KeyError: the except clause counts a failure after a pass, and raises
\* KeyError itself after a failure.
ProbeEnd(o) ==
    /\ h_pc = "probe"
    /\ h_out' = o
    /\ passed' = IF o = "pass" THEN passed + 1 ELSE passed
    /\ h_cur' = 0
    /\ probe_mutated' = FALSE
    /\ IF _execute_check(o)
         THEN IF h_cur \in DOMAIN _recovery_counts
                THEN /\ _failure_counts' = DictPut(_failure_counts, h_cur, 0)
                     /\ _recovery_counts' = [_recovery_counts EXCEPT ![h_cur] = @ + 1]
                     /\ healthy_checks' = healthy_checks + 1
                     /\ UNCHANGED <<h_result, total_checks, it_pos, it_broken>>
                     /\ h_pc' = "loop"
                ELSE /\ _failure_counts' = DictPut(_failure_counts, h_cur, 1)
                     /\ _recovery_counts' = DictPut(_recovery_counts, h_cur, 0)
                     /\ UNCHANGED <<h_result, healthy_checks, total_checks, it_pos, it_broken>>
                     /\ h_pc' = "loop"
       ELSE IF h_cur \in DOMAIN _failure_counts
         THEN /\ CountFailure(h_cur)
              /\ UNCHANGED <<h_result, healthy_checks, total_checks, it_pos, it_broken>>
              /\ h_pc' = "loop"
       ELSE /\ h_pc' = "idle"
            /\ h_result' = HcResult("raised", "-", total_checks, passed')
            /\ healthy_checks' = 0
            /\ total_checks' = 0
            /\ it_pos' = 0
            /\ it_broken' = FALSE
            /\ UNCHANGED <<_failure_counts, _recovery_counts>>
    /\ UNCHANGED <<_checks, _status_history, _current_status, h_runs, notHealth>>

NextHealth ==
    \/ \E nm \in HcNames : AddCheck(nm)
    \/ \E nm \in HcNames : RemoveCheck(nm)
    \/ RunBegin
    \/ LoopNext
    \/ \E o \in ProbeOutcomes : ProbeEnd(o)

SpecHealth == InitHealth /\ [][NextHealth]_vars

NextHealthWide ==
    \/ RunBegin
    \/ LoopNext
    \/ \E o \in ProbeOutcomes : ProbeEnd(o)

SpecHealthWide == InitHealthWide /\ [][NextHealthWide]_vars

SpecHealthFull == InitHealthFull /\ [][NextHealthWide]_vars

\* ------------------------------------------------------------ TimeoutManager
\* Times are counted in half seconds, so that a timeout below one second and
\* one with a fractional part can be told from whole seconds.

\* signal.alarm(int(actual_timeout)): the whole seconds of the timeout, as
\* half seconds; 0 arms no alarm and cancels a pending one.
AlarmDelay(t) == 2 * (t \div 2)

\* actual_timeout = timeout or self.default_timeout (0 stands for None)
ActualTimeout(t) == IF t = 0 THEN default_timeout ELSE t

TmEvent(kind, nm, t, work, elapsed, nested) ==
    [kind |-> kind, name |-> nm, timeout |-> t, work |-> work, elapsed |-> elapsed,
     nested |-> nested, seq |-> 1 - tm_event.seq]

\* if len(self._timeout_stats[func_name]) > 100: keep [-50:]
TimeoutStatsMax == 100
TimeoutStatsKeep == 50

\* _record_execution_time, under the lock: append, and keep the last 50
\* beyond 100 entries
RecordedReplaces(stats, nm, elapsed) ==
    [x \in (DOMAIN stats) \cup {nm} |-> IF x = nm THEN <<elapsed>> ELSE stats[x]]

RecordedKeepsOldest(stats, nm, elapsed) ==
    LET old == IF nm \in DOMAIN stats THEN stats[nm] ELSE <<>>
        new == Append(old, elapsed)
        kept == IF Len(new) > TimeoutStatsMax THEN SubSeq(new, 1, TimeoutStatsKeep) ELSE new
    IN  [x \in (DOMAIN stats) \cup {nm} |-> IF x = nm THEN kept ELSE stats[x]]

Recorded(stats, nm, elapsed) ==
    LET old == IF nm \in DOMAIN stats THEN stats[nm] ELSE <<>>
        new == Append(old, elapsed)
        kept == IF Len(new) > TimeoutStatsMax
                  THEN SubSeq(new, Len(new) - TimeoutStatsKeep + 1, Len(new))
                  ELSE new
    IN  [x \in (DOMAIN stats) \cup {nm} |-> IF x = nm THEN kept ELSE stats[x]]

InitTimeoutWith(stats, ncalls) ==
    /\ default_timeout \in 1..MaxTimeout
    /\ _timeout_stats = stats
    /\ tm_clock = 0
    /\ alarm_at = 0
    /\ sig_handler = 0
    /\ frames = <<>>
    /\ tm_calls = ncalls
    /\ tm_event = [kind |-> "none", name |-> "-", timeout |-> 0, work |-> 0, elapsed |-> 0,
                   nested |-> FALSE, seq |-> 0]
    /\ tm_suggested = [name |-> "-", num |-> 0, den |-> 1, seq |-> 0]
    /\ udids = <<>>
    /\ max_workers = 0
    /\ InitPool(0)
    /\ ParkedBatch
    /\ ParkedPar
    /\ ParkedBreaker
    /\ ParkedRetry
    /\ ParkedConnPool
    /\ ParkedHealth

\* TimeoutManager(default_timeout): nothing recorded.
InitTimeout == InitTimeoutWith(<<>>, 0)

\* A manager that has recorded 99 or 100 calls of f, of durations 0, 1 and 2
\* in turn, with two calls to go.
InitTimeoutFull ==
    \E n \in (TimeoutStatsMax - 1)..TimeoutStatsMax :
        InitTimeoutWith([nm \in {"f"} |-> [i \in 1..n |-> i % 3]], MaxTmCalls - 2)

\* The wrapped functions: f is called from outside, g from inside f, and so on
\* alternately.
FuncAt(depth) == IF depth % 2 = 1 THEN "f" ELSE "g"

\* wrapper, up to the call of func, on the main thread: from outside, or from
\* inside the function of the innermost wrapper in progress. The function
\* needs work half seconds to return.
WrapperBegin(t, work) ==
    /\ tm_calls < MaxTmCalls
    /\ frames # <<>> => (frames[Len(frames)].left > 0 /\ frames[Len(frames)].exc = "None")
    /\ tm_calls' = tm_calls + 1
    /\ frames' = Append(IF frames = <<>> THEN frames
                        ELSE [frames EXCEPT ![Len(frames)].nested = TRUE],
                        [name |-> FuncAt(Len(frames) + 1), timeout |-> ActualTimeout(t),
                         start |-> tm_clock,
                         work |-> work, left |-> work, old_handler |-> sig_handler,
                         exc |-> "None", nested |-> FALSE])
    /\ sig_handler' = Len(frames) + 1
    /\ alarm_at' = IF AlarmDelay(ActualTimeout(t)) = 0 THEN 0
                   ELSE tm_clock + AlarmDelay(ActualTimeout(t))
    /\ UNCHANGED <<default_timeout, _timeout_stats, tm_clock, tm_event, tm_suggested, notTimeout>>

\* wrapper, called on a thread other than the main thread (at any time, the
\* main thread's calls included): signal.signal raises ValueError, func is
\* not called and the time is recorded.
WrapperOffMain(nm, t) ==
    /\ tm_calls < MaxTmCalls
    /\ tm_calls' = tm_calls + 1
    /\ _timeout_stats' = Recorded(_timeout_stats, nm, 0)
    /\ tm_event' = TmEvent("ValueError", nm, ActualTimeout(t), 0, 0, FALSE)
    /\ UNCHANGED <<default_timeout, tm_clock, alarm_at, sig_handler, frames, tm_suggested, notTimeout>>

\* Half a second passes in the innermost function; a due alarm and a due
\* return come first.
TmTick ==
    /\ frames # <<>>
    /\ tm_clock < MaxTmClock
    /\ frames[Len(frames)].left > 0
    /\ frames[Len(frames)].exc = "None"
    /\ alarm_at = 0 \/ tm_clock < alarm_at
    /\ tm_clock' = tm_clock + 1
    /\ frames' = [frames EXCEPT ![Len(frames)].left = @ - 1]
    /\ UNCHANGED <<default_timeout, _timeout_stats, alarm_at, sig_handler, tm_calls,
                   tm_event, tm_suggested, notTimeout>>

\* SIGALRM is delivered: timeout_handler raises TimeoutError in the
\* innermost function.
AlarmFires ==
    /\ frames # <<>>
    /\ alarm_at # 0
    /\ tm_clock >= alarm_at
    /\ frames[Len(frames)].exc = "None"
    /\ alarm_at' = 0
    /\ frames' = [frames EXCEPT ![Len(frames)].exc = "TimeoutError"]
    /\ UNCHANGED <<default_timeout, _timeout_stats, tm_clock, sig_handler, tm_calls,
                   tm_event, tm_suggested, notTimeout>>

\* wrapper, from the return of func, from an exception of its own (o is
\* "raise") or from the TimeoutError raised in it: the alarm is
\* cancelled, the handler found at entry is put back, the time is recorded;
\* an exception goes on into the function that made the call. Only
\* differences of times matter: the clock starts again at 0 for the next
\* outermost call.
WrapperEnd(o) ==
    /\ frames # <<>>
    /\ LET top == frames[Len(frames)]
           f == IF top.exc = "None" /\ o = "raise"
                  THEN [top EXCEPT !.exc = "OperationFailure"] ELSE top
           outer == SubSeq(frames, 1, Len(frames) - 1)
       IN  /\ top.exc = "None" => top.left = 0
           /\ top.exc # "None" => o = "return"
           /\ alarm_at' = 0
           /\ sig_handler' = f.old_handler
           /\ _timeout_stats' = Recorded(_timeout_stats, f.name, tm_clock - f.start)
           /\ tm_event' = TmEvent(IF f.exc # "None" THEN f.exc ELSE "returned",
                                  f.name, f.timeout, f.work, tm_clock - f.start, f.nested)
           /\ frames' = IF f.exc # "None" /\ outer # <<>>
                          THEN [outer EXCEPT ![Len(outer)].exc = f.exc]
                          ELSE outer
           /\ tm_clock' = IF outer = <<>> THEN 0 ELSE tm_clock
    /\ UNCHANGED <<default_timeout, tm_calls, tm_suggested, notTimeout>>

NextTimeout ==
    \/ \E t \in 0..MaxTimeout, work \in 1..MaxWork : WrapperBegin(t, work)
    \/ \E nm \in FuncNames, t \in 0..MaxTimeout : WrapperOffMain(nm, t)
    \/ TmTick
    \/ AlarmFires
    \/ \E o \in {"return", "raise"} : WrapperEnd(o)

SpecTimeout == InitTimeout /\ [][NextTimeout]_vars

SpecTimeoutFull == InitTimeoutFull /\ [][NextTimeout]_vars

\* sum(times)
RECURSIVE SumOf(_)
SumOf(times) == IF times = <<>> THEN 0 ELSE Head(times) + SumOf(Tail(times))

\* get_suggested_timeout(func_name), as a fraction num / den of half seconds:
\* max(min(avg_time * 3, self.default_timeout * 2), 1.0) with avg_time =
\* sum(times) / len(times); 1.0 s is 2 half seconds.
SuggestedWithoutFloor(nm) ==
    IF nm \notin DOMAIN _timeout_stats \/ _timeout_stats[nm] = <<>>
      THEN [num |-> default_timeout, den |-> 1]
      ELSE LET times == _timeout_stats[nm]
           IN  [num |-> Min(3 * SumOf(times), 2 * default_timeout * Len(times)),
                den |-> Len(times)]

get_suggested_timeout(nm) ==
    IF nm \notin DOMAIN _timeout_stats \/ _timeout_stats[nm] = <<>>
      THEN [num |-> default_timeout, den |-> 1]
      ELSE LET times == _timeout_stats[nm]
               suggested == Min(3 * SumOf(times), 2 * default_timeout * Len(times))
           IN  [num |-> IF suggested >= 2 * Len(times) THEN suggested ELSE 2 * Len(times),
                den |-> Len(times)]

\* A manager that has recorded up to MaxTmCalls durations of f and none of g.
InitSuggest ==
    \E times \in SeqsUpTo(0..MaxTmClock, MaxTmCalls) :
        InitTimeoutWith(IF times = <<>> THEN <<>> ELSE [nm \in {"f"} |-> times], MaxTmCalls)

\* A call of get_suggested_timeout(nm), under the lock.
GetSuggestedTimeout(nm) ==
    /\ tm_suggested' = [name |-> nm, num |-> get_suggested_timeout(nm).num,
                        den |-> get_suggested_timeout(nm).den, seq |-> 1 - tm_suggested.seq]
    /\ UNCHANGED <<default_timeout, _timeout_stats, tm_clock, alarm_at, sig_handler, frames,
                   tm_calls, tm_event, notTimeout>>

NextSuggest == \E nm \in FuncNames : GetSuggestedTimeout(nm)

SpecSuggest == InitSuggest /\ [][NextSuggest]_vars

\* ------------------------------------------------------------ claims: batch
CallEnded == b_pc \in {"returned", "raised"}
ResultsFor(i) == {j \in DOMAIN results : results[j].udid = udids[i]}
Raised(i) == outcome[i] \in {"raise", "invalid"}

C2_TimeoutReturnsAll ==
    (timed_out /\ late # {} /\ CallEnded) =>
        /\ b_pc = "returned"
        /\ Len(results) = Len(udids)
        /\ \A i \in DOMAIN udids :
              /\ Cardinality(ResultsFor(i)) = 1
              /\ i \in late =>
                    \A j \in ResultsFor(i) :
                        results[j].success = FALSE /\ results[j].error # Null
              /\ i \in yielded =>
                    \A j \in ResultsFor(i) : results[j] = fresult[i].val

\* C3 as stated: once the aggregate timeout has elapsed the caller gets control
\* back; it is never left waiting for an invocation that never returns.
C3_NotBlockedPastTimeout ==
    (timed_out /\ b_pc = "exit") =>
        \A i \in DOMAIN udids : ~(fstate[i] = "running" /\ outcome[i] = "hang")

C7_ResultXorError ==
    \A j \in DOMAIN results :
        LET r == results[j]
            i == r.udid.id
        IN  /\ r.success => (r.error = Null /\
                             r.result = IF outcome[i] = "value" THEN "value" ELSE Null)
            /\ ~r.success => (r.result = Null /\ r.error # Null)

\* Results of both kinds have been collected.
C7_Witness ==
    \E j, k \in DOMAIN results : results[j].success /\ ~results[k].success

\* --------------------------------------------------------- claims: parallel
LastTaskFor(u) ==
    CHOOSE i \in DOMAIN tasks :
        tasks[i].udid = u /\ \A j \in DOMAIN tasks : tasks[j].udid = u => j <= i

\* C5: parallel_run returns a mapping with exactly one entry for every input
\* key, the operation's return value if it succeeded and an error record if it
\* raised; every key's operation has run, whatever the other keys did.
C5_ParallelRunEntries ==
    (p_mode = "parallel_run" /\ p_pc = "done") =>
        /\ p_exc = Null
        /\ DOMAIN p_results = Range(udids)
        /\ Len(tasks) = Len(udids)
        /\ \A i \in DOMAIN udids : tasks[i].udid = udids[i] /\ op_calls[i] = 1
        /\ \A u \in Range(udids) :
              p_results[u] = IF outcome[LastTaskFor(u)] = "value"
                               THEN EntryValue(u)
                               ELSE EntryError("str(e)")

\* parallel_run has returned a mapping with an error record and a value.
C5_Witness ==
    /\ p_mode = "parallel_run"
    /\ p_pc = "done"
    /\ \E u, v \in DOMAIN p_results :
          p_results[u].error # Null /\ p_results[v].value # Null

IsCallBegin ==
    /\ _lock = Null
    /\ cb_event'.seq # cb_event.seq
    /\ cb_event'.kind \in {"admit", "probe", "reject"}

\* C8: in Closed failureCount is the number of matching failures since the
\* last success (or reset) and is below failure_threshold; a step from Closed
\* opens the breaker exactly when that number reaches failure_threshold.
C8_OpensAtThreshold ==
    /\ [](_state = "closed" =>
            /\ _failure_count = consec_failures
            /\ consec_failures < failure_threshold)
    /\ [][_state = "closed" =>
            /\ (_state' = "open") <=> (consec_failures' = failure_threshold)
            /\ (_state' = "open") <=> (_failure_count' = failure_threshold)]_vars

\* The breaker has just opened from Closed on its third consecutive failure.
C8_Witness ==
    /\ _state = "open"
    /\ cb_event.kind = "expected"
    /\ failure_threshold = 3
    /\ _failure_count = 3
    /\ consec_failures = 3

\* C9: a call made while the breaker is Open and at most recovery_timeout has
\* passed since lastFailureTime is rejected without invoking func, and leaves
\* state, failureCount, successCount and lastFailureTime as they were.
C9_OpenRejects ==
    [][(IsCallBegin /\ _state = "open" /\ now - _last_failure_time <= recovery_timeout) =>
          /\ cb_event'.kind = "reject"
          /\ ~cb_event'.invoked
          /\ _lock' = Null
          /\ UNCHANGED <<_state, _failure_count, _success_count, _last_failure_time>>]_vars

\* A call has been rejected some time after the failure that opened the breaker.
C9_Witness ==
    /\ cb_event.kind = "reject"
    /\ _state = "open"
    /\ now > _last_failure_time
    /\ now - _last_failure_time < recovery_timeout

\* C10: a call made while the breaker is Open moves it to HalfOpen with
\* successCount = 0 and invokes func if strictly more than recovery_timeout has
\* passed since lastFailureTime, and is rejected if exactly recovery_timeout has.
C10_HalfOpenAfterTimeout ==
    [][(IsCallBegin /\ _state = "open") =>
          /\ now - _last_failure_time > recovery_timeout =>
                /\ _state' = "half_open"
                /\ _success_count' = 0
                /\ cb_event'.invoked
                /\ _lock' # Null
          /\ now - _last_failure_time = recovery_timeout =>
                /\ cb_event'.kind = "reject"
                /\ ~cb_event'.invoked
                /\ _state' = "open"]_vars

\* The first call after the recovery timeout has been admitted as a probe.
C10_Witness ==
    /\ cb_event.kind = "probe"
    /\ _state = "half_open"
    /\ _success_count = 0
    /\ _lock # Null
    /\ recovery_timeout > 0
    /\ now - _last_failure_time = recovery_timeout + 1

\* The step is the return of func, with outcome o, in a call that holds the lock.
IsCallEnd(o) ==
    /\ _lock # Null
    /\ _lock' = Null
    /\ cb_event'.seq # cb_event.seq
    /\ cb_event'.kind = o

\* The step is a reset().
IsReset ==
    /\ cb_event'.seq # cb_event.seq
    /\ cb_event'.kind = "reset"

\* C11: in HalfOpen successCount is the number of successful calls since the
\* breaker became HalfOpen and is below 2; each successful call adds 1 to it;
\* a call closes the breaker exactly when it is the second such success, and
\* then failureCount is 0; the first success leaves the breaker HalfOpen.
C11_ClosesOnSecondSuccess ==
    /\ [](_state = "half_open" =>
            /\ _success_count = ho_successes
            /\ ho_successes < 2)
    /\ [][(_state = "half_open" /\ ~IsReset) =>
            /\ IsCallEnd("success") => _success_count' = _success_count + 1
            /\ (_state' = "closed") <=> (IsCallEnd("success") /\ ho_successes' = 2)
            /\ (_state' = "closed") => (_failure_count' = 0)
            /\ (IsCallEnd("success") /\ ho_successes = 0) => (_state' = "half_open")]_vars

\* The second success of a half-open breaker has just closed it.
C11_Witness ==
    /\ _state = "closed"
    /\ cb_event.kind = "success"
    /\ ho_successes = 2
    /\ _success_count = 2
    /\ _failure_count = 0
    /\ failure_threshold = 2

\* C12: a matching failure of a call made in HalfOpen opens the breaker and
\* sets lastFailureTime to the time of that failure, for every
\* failure_threshold and any number of successes before it.
C12_HalfOpenFailureReopens ==
    [][(_state = "half_open" /\ IsCallEnd("expected")) =>
          /\ _state' = "open"
          /\ _last_failure_time' = now]_vars

\* A half-open breaker with threshold 3 has reopened on a failure that
\* followed one success.
C12_Witness ==
    /\ _state = "open"
    /\ cb_event.kind = "expected"
    /\ ho_successes = 1
    /\ _success_count = 1
    /\ failure_threshold = 3
    /\ _last_failure_time = now
    /\ now > 1

\* C13: a call whose func raises an error that expected_exception does not
\* match ends with that error and leaves state, failureCount, successCount and
\* lastFailureTime as they were; func only runs in Closed and HalfOpen.
C13_OtherErrorChangesNothing ==
    /\ [](_lock # Null => _state \in {"closed", "half_open"})
    /\ [][IsCallEnd("other") =>
            UNCHANGED <<_state, _failure_count, _success_count, _last_failure_time>>]_vars

\* A non-matching error has passed through a half-open breaker that had
\* counted one success, after failures were counted.
C13_Witness ==
    /\ cb_event.kind = "other"
    /\ _state = "half_open"
    /\ _success_count = 1
    /\ _failure_count > 0
    /\ _lock = Null

\* C14: while a call holds the breaker no other call is admitted or rejected,
\* no reset() happens and the fields change only in the step that ends that
\* call; the counters account for every outcome (failureCount in Closed is
\* the number of failures since the last success, successCount in HalfOpen
\* the number of successes since it became HalfOpen).
C14_CallsAreAtomic ==
    /\ [][_lock # Null =>
            /\ _lock' \in {_lock, Null}
            /\ (_lock' = _lock) =>
                  UNCHANGED <<_state, _failure_count, _success_count, _last_failure_time>>
            /\ (cb_event' # cb_event) =>
                  (cb_event'.kind \in FuncOutcomes /\ _lock' = Null)]_vars
    /\ [](_state = "closed" => _failure_count = consec_failures)
    /\ [](_state = "half_open" => _success_count = ho_successes)

\* Both threads have made calls, and one of them is inside func as the probe
\* of a half-open breaker.
C14_Witness ==
    /\ callers = CbThreads
    /\ _lock = "t2"
    /\ _state = "half_open"
    /\ cb_event.kind = "probe"

\* ------------------------------------------------------------ claims: retry
\* The call of thread t is over.
Ended(t) == r_pc[t] = "idle" /\ r_result[t].kind # "none"

\* C15: attempt i of a call is invoked after exactly i invocations and i
\* sleeps of that call; a call all of whose attempts raised a retryable error
\* ends by raising, after max_retries + 1 invocations and max_retries sleeps,
\* the error of its last attempt.
C15_RetriesThenRaises ==
    \A t \in DOMAIN r_pc :
        /\ r_pc[t] = "invoke" => (c_inv[t] = attempt[t] /\ c_sleeps[t] = attempt[t])
        /\ c_sleeps[t] \in {c_inv[t] - 1, c_inv[t]}
        /\ (Ended(t) /\ c_inv[t] > 0 /\ c_failed[t] = c_inv[t]) =>
              /\ r_result[t].kind = "raised"
              /\ c_inv[t] = config.max_retries + 1
              /\ c_sleeps[t] = config.max_retries
              /\ r_result[t].exc = config.max_retries + 1

\* A call with max_retries = 2 has failed three times and raised.
C15_Witness ==
    \E t \in DOMAIN r_pc :
        /\ Ended(t)
        /\ config.max_retries = 2
        /\ c_failed[t] = 3
        /\ c_inv[t] = 3
        /\ c_sleeps[t] = 2
        /\ r_result[t] = [kind |-> "raised", exc |-> 3]

\* C16: an invocation that raises a non-retryable error ends the call in
\* that step with that error, without a sleep and without touching the
\* stats; the call has then made one invocation more than it has slept.
C16_NonRetryablePropagates ==
    /\ [](\A t \in DOMAIN r_pc :
            (Ended(t) /\ r_out[t] = "other") =>
                /\ r_result[t] = [kind |-> "raised", exc |-> c_inv[t]]
                /\ c_sleeps[t] = c_inv[t] - 1
                /\ c_failed[t] = c_inv[t] - 1)
    /\ [][\A t \in DOMAIN r_pc :
            (r_pc[t] = "invoke" /\ c_inv'[t] = c_inv[t] + 1 /\ r_out'[t] = "other") =>
                /\ r_pc'[t] = "idle"
                /\ r_result'[t] = [kind |-> "raised", exc |-> attempt[t] + 1]
                /\ c_sleeps'[t] = c_sleeps[t]
                /\ UNCHANGED <<_retry_stats, stat_dicts>>]_vars

\* The second attempt of a call with max_retries = 2 has raised a
\* non-retryable error.
C16_Witness ==
    \E t \in DOMAIN r_pc :
        /\ Ended(t)
        /\ r_out[t] = "other"
        /\ config.max_retries = 2
        /\ c_inv[t] = 2
        /\ c_failed[t] = 1
        /\ r_result[t] = [kind |-> "raised", exc |-> 2]

\* C17: between calls, the success and failure counters of every operation
\* name add up to the number of invocations of the operations of that name.
C17_EveryAttemptCounted ==
    (\A t \in DOMAIN r_pc : r_pc[t] = "idle") =>
        \A nm \in DOMAIN invocations :
            get_stats(nm).success + get_stats(nm).failure = invocations[nm]

\* C18: once the concurrent calls have all ended, the counters of every
\* operation name are the sums of the increments the calls made.
C18_NoLostUpdate ==
    (\A t \in DOMAIN r_pc : r_pc[t] = "idle" /\ calls_left[t] = 0) =>
        \A nm \in DOMAIN incs : get_stats(nm) = incs[nm]

\* C19: without jitter the delay after failed attempt i is
\* min(base_delay, max_delay) for Fixed and Custom,
\* min(base_delay * backoff_factor^i, max_delay) for Exponential and
\* min(base_delay * (i + 1), max_delay) for Linear, and is at most max_delay.
C19_DelayFormula ==
    (d_delay # -1 /\ ~config.jitter) =>
        /\ config.strategy \in {"fixed", "custom"} =>
              d_delay = Min(config.base_delay, config.max_delay)
        /\ config.strategy = "exponential" =>
              d_delay = Min(config.base_delay * (config.backoff_factor ^ d_attempt),
                            config.max_delay)
        /\ config.strategy = "linear" =>
              d_delay = Min(config.base_delay * (d_attempt + 1), config.max_delay)
        /\ d_delay <= config.max_delay

\* The exponential delay of the third attempt, 10 * 2^2, has been clamped to
\* a max_delay of 30.
C19_Witness ==
    /\ d_delay = 30
    /\ d_attempt = 2
    /\ ~config.jitter
    /\ config.strategy = "exponential"
    /\ config.base_delay = 10
    /\ config.backoff_factor = 2
    /\ config.max_delay = 30

\* C20 as stated: the first execute() after reset_stats(), when it returns,
\* leaves the counters of its operation at success = 1, failure = 0,
\* retries = 0.
C20_NextSuccessLeavesOneZeroZero ==
    \A t \in DOMAIN r_pc :
        (Ended(t) /\ r_result[t].kind = "returned" /\ calls_since_reset = 1) =>
            get_stats(func_name[t]) = [success |-> 1, failure |-> 0, retries |-> 0]

\* C20: after reset_stats(), once or several times, and before the next
\* execute() every counter is zero; the first execute() after it, when it
\* returns after k failed attempts, leaves the counters of its operation at
\* success = 1, failure = k, retries = k.
C20_ResetThenCountsFromZero ==
    /\ calls_since_reset = 0 =>
          \A nm \in DOMAIN _retry_stats : get_stats(nm) = ZeroStats
    /\ \A t \in DOMAIN r_pc :
          (Ended(t) /\ r_result[t].kind = "returned" /\ calls_since_reset = 1) =>
              get_stats(func_name[t]) =
                  [success |-> 1, failure |-> c_failed[t], retries |-> c_failed[t]]

\* The thread has made at least two calls, reset_stats() was called before
\* the last of them, and that call returned after one failed attempt.
C20_Witness ==
    \E t \in DOMAIN r_pc :
        /\ Ended(t)
        /\ r_result[t].kind = "returned"
        /\ calls_since_reset = 1
        /\ calls_left[t] < MaxCalls - 1
        /\ c_failed[t] = 1
        /\ get_stats(func_name[t]) = [success |-> 1, failure |-> 1, retries |-> 1]

\* ------------------------------------------------------- claims: connections
\* The step is an acquire.
IsAcquire ==
    /\ cp_event'.seq # cp_event.seq
    /\ cp_event'.kind \in {"reused", "created", "exhausted"}

\* The step is a removal made by the cleanup sweep.
IsSweepRemoval ==
    /\ cp_event'.seq # cp_event.seq
    /\ cp_event'.kind = "swept"

\* C21: the pool never tracks more than max_connections records.
C21_AtMostMaxConnections == Len(_connections) <= max_connections

\* A pool of capacity 1 is full again after close(): the record was created
\* by an acquire that followed it, while the cleanup thread has ended.
C21_Witness ==
    /\ max_connections = 1
    /\ Len(_connections) = 1
    /\ close_pc = "returned"
    /\ cl_pc = "dead"
    /\ cp_event.kind = "created"

\* C22: an acquire on a pool that is at capacity and has no active record
\* ends in that step with the pool-full error and leaves the records as
\* they were.
C22_ExhaustedFailsAtOnce ==
    [][(IsAcquire /\ ActiveAt = {} /\ Len(_connections) >= max_connections) =>
          /\ cp_event'.kind = "exhausted"
          /\ _connections' = _connections]_vars

\* An acquire has failed on a pool of capacity 0.
C22_Witness ==
    /\ cp_event.kind = "exhausted"
    /\ max_connections = 0
    /\ _connections = <<>>
    /\ clock > 0

\* C23: every record a cleanup sweep removes has been idle longer than
\* idle_timeout at the moment it is removed.
C23_SweepEvictsOnlyIdle ==
    [][IsSweepRemoval =>
          \A i \in 1..Len(_connections) :
              (\A j \in 1..Len(_connections') : _connections'[j].id # _connections[i].id) =>
                  clock - _connections[i].last_used > idle_timeout]_vars

\* C24: once close() has returned the cleanup thread takes no step of a sweep.
C24_NoSweepAfterClose ==
    [][close_pc = "returned" =>
          ~(/\ cl_pc \in {"scan", "remove"}
            /\ cl_pc' # cl_pc \/ expired_connections' # expired_connections
                              \/ _connections' # _connections)]_vars

\* ------------------------------------------------------------ claims: health
IsProbeEnd == h_pc = "probe" /\ h_pc' # "probe"
IsRunEnd == h_result' # h_result
Registered(nm) == \E i \in 1..Len(_checks) : _checks[i] = nm

C26_CountersFollowProbe ==
    /\ [](\A i \in 1..Len(_checks) :
              _failure_counts[_checks[i]] = 0 \/ _recovery_counts[_checks[i]] = 0)
    /\ [][(IsProbeEnd /\ Registered(h_cur)) =>
              IF h_out' = "pass"
                THEN /\ _failure_counts'[h_cur] = 0
                     /\ _recovery_counts'[h_cur] = _recovery_counts[h_cur] + 1
                ELSE /\ _failure_counts'[h_cur] = _failure_counts[h_cur] + 1
                     /\ _recovery_counts'[h_cur] = 0]_vars

\* One check has passed twice in a row and, after a pass, another has just
\* failed.
C26_Witness ==
    /\ h_out \in {"fail", "raise", "timeout"}
    /\ \E a, b \in 1..Len(_checks) :
           /\ _recovery_counts[_checks[a]] = 2
           /\ _failure_counts[_checks[b]] = 1
    /\ h_runs = 2

\* C27: a probe that raises is counted as a failed probe of its check and
\* the loop of check_health goes on to the next probe; check_health itself
\* raises only in a run during which a probe has changed the registry.
C27_RaisingProbeIsAFailure ==
    /\ [][(IsProbeEnd /\ h_out' = "raise" /\ Registered(h_cur)) =>
              /\ _failure_counts'[h_cur] = _failure_counts[h_cur] + 1
              /\ _recovery_counts'[h_cur] = 0
              /\ healthy_checks' = healthy_checks
              /\ h_pc' = "loop"
              /\ h_result' = h_result]_vars
    /\ [][(IsRunEnd /\ h_result'.kind = "raised") => it_broken]_vars

\* A run of two probes, the first passing and the last raising, has returned
\* Degraded.
C27_Witness ==
    /\ h_out = "raise"
    /\ h_pc = "idle"
    /\ h_result.kind = "returned"
    /\ h_result.n = 2
    /\ h_result.p = 1
    /\ h_result.status = "degraded"

\* C28: every check_health call appends exactly one entry to the status
\* history, and the entry carries the status the call returns.
C28_OneHistoryEntryPerRun ==
    [][(IsRunEnd /\ h_result'.kind = "returned") =>
          _status_history' = Append(_status_history, h_result'.status)]_vars

\* C29: a check_health call ends by returning, after one probe for every
\* check that was registered when it began, whatever add_check and
\* remove_check calls are made while it is in progress.
C29_RunSurvivesRegistryChange ==
    [][IsRunEnd =>
          /\ h_result'.kind = "returned"
          /\ h_result'.n > 0 => it_pos = h_result'.n + 1]_vars

\* ------------------------------------------------------------ claims: timeout
\* C30: a wrapped call whose function needs longer than the timeout in force
\* ends with TimeoutError, whatever the timeout; here for calls made on the
\* main thread whose function makes no wrapped call itself.
C30_OverrunEndsWithTimeoutError ==
    (/\ tm_event.kind \in {"returned", "TimeoutError"}
     /\ ~tm_event.nested
     /\ tm_event.work > tm_event.timeout) => tm_event.kind = "TimeoutError"

\* ------------------------------------------------------ claims: later breaker
\* C32: an open or half-open breaker has counted at least failure_threshold
\* failures and a closed breaker fewer than failure_threshold.
C32_StateMatchesFailureCount ==
    /\ _state \in {"open", "half_open"} => _failure_count >= failure_threshold
    /\ _state = "closed" => _failure_count < failure_threshold

\* A half-open breaker of threshold 2 has let one successful call through
\* and still counts its two failures.
C32_Witness ==
    /\ _state = "half_open"
    /\ _success_count = 1
    /\ failure_threshold = 2
    /\ _failure_count = 2
    /\ _lock = Null

\* C36: once the wrapped function has stopped failing, with calls going on
\* and time passing, the breaker is eventually closed and closed for good.
C36_EventuallyClosedForGood == <>[](_state = "closed")

\* The breaker has been opened, has let two successful calls through in
\* half-open state and is closed again.
C36_Witness ==
    /\ _state = "closed"
    /\ ho_successes = 2
    /\ _success_count = 2
    /\ _failure_count = 0
    /\ now > FailuresUntil

\* --------------------------------------------------- claims: later connections
\* C33: a pool of capacity 1 or more never tracks more than one record and
\* none of its acquires fails with the pool-full error.
C33_OneRecordNeverExhausted ==
    max_connections >= 1 =>
        /\ Len(_connections) <= 1
        /\ cp_event.kind # "exhausted"

\* A pool of capacity 2 has answered an acquire with the one record it holds,
\* which was created by an earlier acquire.
C33_Witness ==
    /\ max_connections = 2
    /\ cp_event.kind = "reused"
    /\ Len(_connections) = 1
    /\ _connections[1].id < clock

\* The step is a release.
IsRelease ==
    /\ cp_event'.seq # cp_event.seq
    /\ cp_event'.kind = "released"

\* C37: an acquire on a pool that holds an active record returns the id of a
\* record of the pool and changes only that record's last_used; a release
\* changes only the last_used of the record it names and nothing at all when
\* the pool does not track the id; neither changes anything else of the pool.
C37_AcquireReleaseTouchOneRecord ==
    /\ [][(IsAcquire /\ \E i \in 1..Len(_connections) : _connections[i].is_active) =>
              /\ cp_event'.kind = "reused"
              /\ \E i \in 1..Len(_connections) :
                     /\ _connections[i].id = cp_event'.id
                     /\ _connections' = [_connections EXCEPT ![i].last_used = clock]
              /\ UNCHANGED <<max_connections, idle_timeout, _stop_cleanup, cl_pc,
                             expired_connections, close_pc>>]_vars
    /\ [][IsRelease =>
              /\ Len(_connections') = Len(_connections)
              /\ \A i \in 1..Len(_connections) :
                     _connections'[i] = IF _connections[i].id = cp_event'.id
                                          THEN [_connections[i] EXCEPT !.last_used = clock]
                                          ELSE _connections[i]
              /\ UNCHANGED <<max_connections, idle_timeout, _stop_cleanup, cl_pc,
                             expired_connections, close_pc>>]_vars

\* A release of an id the pool does not track has left the one record of the
\* pool as an earlier acquire had left it.
C37_Witness ==
    /\ cp_event.kind = "released"
    /\ cp_event.id = -1
    /\ Len(_connections) = 1
    /\ _connections[1].last_used < clock
    /\ _connections[1].last_used > _connections[1].id

\* ------------------------------------------------------ claims: later parallel
\* C34: no task's function is called twice, and when wait_for_completion
\* returns with every future done, the function the caller submitted has been
\* called once for every accepted task, also for one accepted before the
\* worker pool existed.
C34_SubmittedTasksRun ==
    /\ [](\A i \in DOMAIN tasks : op_calls[i] <= 1)
    /\ [][(p_pc = "wait" /\ p_pc' = "body" /\ AllWaitedDone) =>
              \A i \in DOMAIN tasks : tasks[i].func = "func" => op_calls[i] = 1]_vars

\* ------------------------------------------------------ claims: later timeout
\* C35: a wrapped call whose function has run another wrapped call, and which
\* needs longer than its own timeout of whole seconds, ends with
\* TimeoutError.
C35_OuterTimeoutStillArmed ==
    (/\ tm_event.kind \in {"returned", "TimeoutError"}
     /\ tm_event.nested
     /\ tm_event.timeout % 2 = 0
     /\ tm_event.work > tm_event.timeout) => tm_event.kind = "TimeoutError"

\* The durations recorded under a name.
DurationsOf(stats, nm) == IF nm \in DOMAIN stats THEN stats[nm] ELSE <<>>

\* C38: the step that ends a wrapped call, by return, by an exception of the
\* function, by TimeoutError or by the ValueError of signal.signal, appends
\* the call's duration to the durations of its name and changes no other
\* name's; no other step changes the durations; so the durations recorded
\* are as many as the calls that have ended.
C38_OneDurationPerInvocation ==
    /\ [][IF tm_event' # tm_event
            THEN /\ DOMAIN _timeout_stats' = (DOMAIN _timeout_stats) \cup {tm_event'.name}
                 /\ _timeout_stats'[tm_event'.name] =
                        Append(DurationsOf(_timeout_stats, tm_event'.name), tm_event'.elapsed)
                 /\ \A nm \in DOMAIN _timeout_stats :
                        nm # tm_event'.name => _timeout_stats'[nm] = _timeout_stats[nm]
            ELSE _timeout_stats' = _timeout_stats]_vars
    /\ [](Len(DurationsOf(_timeout_stats, "f")) + Len(DurationsOf(_timeout_stats, "g"))
              = tm_calls - Len(frames))

\* The second call of f has been cut off by the alarm after one second; the
\* first had ended after half a second.
C38_Witness ==
    /\ tm_event.kind = "TimeoutError"
    /\ tm_event.name = "f"
    /\ DurationsOf(_timeout_stats, "f") = <<1, 2>>
    /\ tm_calls = 2
    /\ frames = <<>>

\* The step records a duration.
IsRecording == tm_event' # tm_event

\* C40: no name ever has more than 100 durations; a recording that makes a
\* list 101 long leaves its last 50 durations in their order, and any other
\* recording appends to the list.
C40_DurationsCapped ==
    /\ [](\A nm \in DOMAIN _timeout_stats : Len(_timeout_stats[nm]) <= 100)
    /\ [][IsRecording =>
              LET new == Append(DurationsOf(_timeout_stats, tm_event'.name),
                                tm_event'.elapsed)
              IN  _timeout_stats'[tm_event'.name] =
                      IF Len(new) = 101 THEN [i \in 1..50 |-> new[i + 51]] ELSE new]_vars

\* The 101st duration of f has been recorded and the list is 50 long again,
\* the oldest duration kept being the 52nd.
C40_Witness ==
    /\ "f" \in DOMAIN _timeout_stats
    /\ Len(_timeout_stats["f"]) = 50
    /\ _timeout_stats["f"][1] = 52 % 3
    /\ _timeout_stats["f"][49] = 100 % 3
    /\ _timeout_stats["f"][50] = tm_event.elapsed
    /\ tm_event.name = "f"

\* C31: get_suggested_timeout(name) returns default_timeout when no duration
\* is recorded under the name; otherwise, avg being the mean of the recorded
\* durations, 3 * avg when that is at least 1 s and at most 2 *
\* default_timeout, 2 * default_timeout when 3 * avg is more and 2 *
\* default_timeout at least 1 s, and 1 s in every other case; the call leaves
\* default_timeout and the durations as they are.
C31_SuggestedTimeout ==
    [][tm_suggested' # tm_suggested =>
          LET r == tm_suggested'
              times == DurationsOf(_timeout_stats, r.name)
              n == Len(times)
              d == default_timeout
          IN  /\ r.den > 0
              /\ IF n = 0 THEN r.num = d * r.den
                 ELSE IF 3 * SumOf(times) >= 2 * n /\ 3 * SumOf(times) <= 2 * d * n
                   THEN r.num * n = 3 * SumOf(times) * r.den
                 ELSE IF 3 * SumOf(times) > 2 * d * n /\ 2 * d >= 2
                   THEN r.num = 2 * d * r.den
                 ELSE r.num = 2 * r.den
              /\ UNCHANGED <<default_timeout, _timeout_stats>>]_vars

\* With a default of half a second and one call of f that took a second and
\* a half, one second has been suggested for f.
C31_Witness ==
    /\ tm_suggested.name = "f"
    /\ default_timeout = 1
    /\ DurationsOf(_timeout_stats, "f") = <<3>>
    /\ tm_suggested.num = 2 * tm_suggested.den

\* ------------------------------------------------------- claims: later health
\* C39: the status history never holds more than 1000 entries between
\* check_health calls; a run whose append makes it 1001 long leaves its last
\* 500 entries in their order, and any other run that computes a status
\* appends it.
C39_HistoryCapped ==
    /\ [](Len(_status_history) <= 1000)
    /\ [][_status_history' # _status_history =>
              LET new == Append(_status_history, h_result'.status)
              IN  _status_history' =
                      IF Len(new) = 1001 THEN [i \in 1..500 |-> new[i + 501]] ELSE new]_vars

\* The 1001st entry has been appended and the history is 500 long again: its
\* oldest entry is the 502nd and its newest the status just returned.
C39_Witness ==
    /\ Len(_status_history) = 500
    /\ _status_history[1] = <<"healthy", "degraded", "unhealthy">>[(502 % 3) + 1]
    /\ _status_history[499] = <<"healthy", "degraded", "unhealthy">>[(1000 % 3) + 1]
    /\ _status_history[500] = h_result.status
    /\ h_result.kind = "returned"

=============================================================================
